---- MODULE Spec2Model ----
(***************************************************************************)
(* Model of the transcript pipeline of the YouTube transcript extension:   *)
(* the chunker (lib/transcript.ts), the retrieval index (lib/search.ts,    *)
(* lib/embeddings.ts), the segmenter (TimelineTab), the SEARCH_REQUEST      *)
(* handler of the content script, the agentic chat loop of the background  *)
(* worker and the transcript fetch with its track locator                  *)
(* (lib/transcript.ts fetchTranscript, fetchTranscriptData).               *)
(*                                                                         *)
(* Text is a sequence of one-character strings, so that trimming, word     *)
(* splitting, lower-casing and substring search are computed, not assumed. *)
(* Times are whole seconds.                                                *)
(***************************************************************************)
EXTENDS Integers, Sequences, FiniteSets, TLC

VARIABLES
    \* chunker (lib/transcript.ts chunkTranscript)
    cues,          \* input cue list
    targetWords,   \* word budget per chunk
    chunks,        \* output of chunkTranscript
    chunkPc,       \* "input" | "done"
    \* retrieval index (lib/search.ts, lib/embeddings.ts)
    sQuery,        \* query text
    sSegments,     \* chunk list searched (EmbeddedSegment[])
    sTopK,         \* topK of hybridSearch
    sResults,      \* SearchResult[] returned
    sPc,           \* "input" | "exactDone" | "embedding" | "hybridDone" | "hybridFailed"
    \* segmenter (TimelineTab groupIntoBlocks)
    gSegs,         \* chunk list to segment (EmbeddedSegment[])
    gBlocks,       \* TimelineBlock[] returned
    gMethod,       \* "semantic" | "time"
    gChosen,       \* semanticGrouping: accepted boundaries (chunk positions, 0-based)
    gPc,           \* "input" | "done"
    \* segment store (lib/segment-store.ts)
    store,         \* _segments: the current video's chunk set
    \* agentic chat loop (background handleChatStream)
    bgPc,          \* "off" | "idle" | "streaming" | "done" | "failed"
    tabId,         \* sender.tab?.id: "none" or a tab id
    step,          \* generation step of streamText in progress (1-based), 0 before
    toolSteps,     \* the steps in which the model called search_transcript
    toolCalls,     \* executions of searchTranscriptTool.execute in this turn
    toolOutcome,   \* the promise execute returned: none, pending, resolved, rejected
    fullText,      \* number of text deltas accumulated in fullText
    tabEvents,     \* CHAT_SEARCHING / CHAT_CHUNK messages sent to the tab
    \* SEARCH_REQUEST exchange with the content script (content/index.tsx)
    reqPc,         \* "none" | "sent" | "embedding" | "responded" | "lost"
    reqQuery,      \* msg.payload.query
    reqSegments,   \* const segments = getSegments(), captured by the handler
    reqResponse,   \* the value passed to sendResponse, or undefined
    \* track locator (lib/transcript.ts fetchTranscriptData, cleanBase)
    lBaseUrl,      \* baseUrl of a caption track
    lClean,        \* cleanBase computed from baseUrl
    lAgain,        \* cleanBase computed from that cleanBase
    lPc,           \* "input" | "stripped" | "restripped"
    \* transcript fetch (lib/transcript.ts fetchTranscript, fetchTranscriptData)
    fPc,           \* "idle" | "pageFetch" | "getTranscript" | "json3" | "xml" | "resolved" | "rejected"
    fDom,          \* caption tracks held by the page's script tags
    fTracks,       \* let tracks
    fBgError,      \* let bgError: null or the message of the page-fetch error
    fDiag,         \* diag.steps
    fPreferred,    \* preferredTrack, undefined before the selection
    fCleanBase,    \* cleanBase of fetchTranscriptData, undefined before
    fOutcome,      \* what the promise of fetchTranscript settled with, undefined before
    \* panel of the content script (content/index.tsx, components/Panel)
    page,          \* the video of window.location.href
    inst,          \* the Panel instance reactRoot renders, 0 when reactRoot is null
    semanticSearchEnabled, \* settingsRef.current.semanticSearchEnabled
    open,          \* useState open of the mounted Panel
    loadState,     \* useState loadState: "idle" | "fetching" | "embedding" | "ready" | "error"
    rawSegments,   \* useState rawSegments
    embeddedSegments, \* useState embeddedSegments
    loads,         \* per Panel instance, its call of loadTranscript
    \* chat view (components/ChatTab)
    chatTab,       \* the mounted ChatTab instance, 0 when none is mounted
    chatTabs,      \* ChatTab instances mounted so far
    messages,      \* useState messages
    loading,       \* useState loading
    searchPhase,   \* useState searchPhase: null or the query being searched
    chatError,     \* useState error
    stored,        \* sessionStorage item yt-transcript-chat:<videoId>, <<>> when absent
    turns,         \* the calls of sendMessage: CHAT_STREAM request and chunkListener
    \* timeline view (TimelineTab) and its title cache in localStorage
    titleCache,    \* per segmentation method, the item yt-transcript-timeline:<videoId>:<method>
    tlSegments,    \* the segments prop
    hasProvider,   \* a provider with a key is configured
    timelineTab,   \* the mounted TimelineTab instance, 0 when none is mounted
    timelineTabs,  \* TimelineTab instances mounted so far
    tlBlocks,      \* useState blocks
    segMethod,     \* useState segMethod
    generating,    \* useState generating
    genError,      \* useState genError
    hasGeneratedRef, \* hasGeneratedRef.current
    gens,          \* the calls of generateTitles: GENERATE_TIMELINE requests
    \* transcript view (TranscriptTab) with its search bar
    tvQuery,       \* useState query
    searchResults, \* useState searchResults: null or the result list
    searching,     \* useState searching
    debounceRef,   \* the query of the pending debounce timer, null when none is pending
    searches,      \* the calls of runSearch waiting for hybridSearch
    \* caption-track extraction from a script payload
    exArray,       \* the captionTracks array the payload holds, as a JSON value
    exPayload,     \* the text of the script: a sequence of characters and words
    exSlice,       \* html.slice(arrStart, arrEnd + 1) of extractCaptionTracksFromHTML
    exFromHtml,    \* what extractCaptionTracksFromHTML returned, undefined before
    exFromSource,  \* what extractCaptionTracks returned, undefined before
    \* mounting of the app by the content script (content/index.tsx)
    reactRoot,     \* let reactRoot: the id of the root, 0 for null
    appHost,       \* let appHost: the id of the host element, 0 for null
    domObserver,   \* let domObserver: an index of observers, 0 for null
    playerObserver, \* let playerObserver: an index of observers, 0 for null
    hosts,         \* the elements with id yt-transcript-app-host in the document
    roots,         \* the React roots that render a Panel
    observers,     \* the MutationObservers created so far
    timers,        \* pending calls of waitForPlayerThenDOM: re-mount timers, first run
    hasPlayer,     \* document.querySelector("#player") finds an element
    hasNodes,      \* the action bar and a panel insertion point exist
    navigations,   \* yt-navigate-finish events so far
    \* the background worker's offscreen document (background/index.ts)
    embedRequests, \* the EMBED_TEXT requests: where handleEmbedText stands, response
    offscreenDocument, \* "none", "creating" or "open": the browser's offscreen document
    createCalls    \* calls of chrome.offscreen.createDocument so far

chunkVars == <<cues, targetWords, chunks, chunkPc>>
searchVars == <<sQuery, sSegments, sTopK, sResults, sPc>>
groupVars == <<gSegs, gBlocks, gMethod, gChosen, gPc>>
chatVars == <<store, bgPc, tabId, step, toolSteps, toolCalls, toolOutcome, fullText,
              tabEvents, reqPc, reqQuery, reqSegments, reqResponse>>

locatorVars == <<lBaseUrl, lClean, lAgain, lPc>>
fetchVars == <<fPc, fDom, fTracks, fBgError, fDiag, fPreferred, fCleanBase, fOutcome>>
panelVars == <<page, inst, semanticSearchEnabled, open, loadState, rawSegments,
               embeddedSegments, loads>>
viewVars == <<chatTab, chatTabs, messages, loading, searchPhase, chatError, stored, turns>>
transcriptVars == <<tvQuery, searchResults, searching, debounceRef, searches>>
timelineVars == <<titleCache, tlSegments, hasProvider, timelineTab, timelineTabs, tlBlocks,
                  segMethod,
                  generating, genError, hasGeneratedRef, gens>>
extractVars == <<exArray, exPayload, exSlice, exFromHtml, exFromSource>>

\* The components added to the explicit initial states and frames.
mountVars == <<reactRoot, appHost, domObserver, playerObserver, hosts, roots, observers,
               timers, hasPlayer, hasNodes, navigations>>
offscreenVars == <<embedRequests, offscreenDocument, createCalls>>
auxVars == <<extractVars, mountVars, offscreenVars>>

vars == <<chunkVars, searchVars, groupVars, chatVars, locatorVars, fetchVars, panelVars, viewVars, timelineVars, transcriptVars, extractVars, mountVars, offscreenVars>>

\* JavaScript values that cross a message boundary.
Undefined == [type |-> "undefined"]
JsString(pieces) == [type |-> "string", pieces |-> pieces]
NoOutcome == [state |-> "none"]
Null == [type |-> "null"]
JsArray(items) == [type |-> "array", items |-> items]

----------------------------------------------------------------------------
(* A component that a specification does not exercise stays switched off.  *)

ChunkIdle ==
    /\ cues = <<>>
    /\ targetWords = 1
    /\ chunks = <<>>
    /\ chunkPc = "off"

SearchIdle ==
    /\ sQuery = <<>>
    /\ sSegments = <<>>
    /\ sTopK = 0
    /\ sResults = <<>>
    /\ sPc = "off"

GroupIdle ==
    /\ gSegs = <<>>
    /\ gBlocks = <<>>
    /\ gMethod = "time"
    /\ gChosen = <<>>
    /\ gPc = "off"

ChatIdle ==
    /\ store = <<>>
    /\ bgPc = "off"
    /\ tabId = "none"
    /\ step = 0
    /\ toolSteps = {}
    /\ toolCalls = 0
    /\ toolOutcome = NoOutcome
    /\ fullText = 0
    /\ tabEvents = <<>>
    /\ reqPc = "none"
    /\ reqQuery = <<>>
    /\ reqSegments = <<>>
    /\ reqResponse = Undefined

LocatorIdle ==
    /\ lBaseUrl = <<>>
    /\ lClean = <<>>
    /\ lAgain = <<>>
    /\ lPc = "off"

FetchIdle ==
    /\ fPc = "off"
    /\ fDom = <<>>
    /\ fTracks = <<>>
    /\ fBgError = Null
    /\ fDiag = <<>>
    /\ fPreferred = Undefined
    /\ fCleanBase = Undefined
    /\ fOutcome = Undefined

PanelIdle ==
    /\ page = "off"
    /\ inst = 0
    /\ semanticSearchEnabled = FALSE
    /\ open = FALSE
    /\ loadState = "idle"
    /\ rawSegments = <<>>
    /\ embeddedSegments = <<>>
    /\ loads = <<>>

ViewIdle ==
    /\ chatTab = 0
    /\ chatTabs = 0
    /\ messages = <<>>
    /\ loading = FALSE
    /\ searchPhase = Null
    /\ chatError = <<>>
    /\ stored = <<>>
    /\ turns = <<>>

TimelineIdle ==
    /\ titleCache = <<>>
    /\ tlSegments = <<>>
    /\ hasProvider = FALSE
    /\ timelineTab = 0
    /\ timelineTabs = 0
    /\ tlBlocks = <<>>
    /\ segMethod = "time"
    /\ generating = FALSE
    /\ genError = <<>>
    /\ hasGeneratedRef = FALSE
    /\ gens = <<>>

TranscriptIdle ==
    /\ tvQuery = <<>>
    /\ searchResults = Null
    /\ searching = FALSE
    /\ debounceRef = Null
    /\ searches = <<>>

ExtractIdle ==
    /\ exArray = Undefined
    /\ exPayload = <<>>
    /\ exSlice = Undefined
    /\ exFromHtml = Undefined
    /\ exFromSource = Undefined

MountIdle ==
    /\ reactRoot = 0
    /\ appHost = 0
    /\ domObserver = 0
    /\ playerObserver = 0
    /\ hosts = {}
    /\ roots = {}
    /\ observers = <<>>
    /\ timers = 0
    /\ hasPlayer = FALSE
    /\ hasNodes = FALSE
    /\ navigations = 0

OffscreenIdle ==
    /\ embedRequests = <<>>
    /\ offscreenDocument = "none"
    /\ createCalls = 0

AuxIdle == ExtractIdle /\ MountIdle /\ OffscreenIdle

\* The variables each component leaves alone, and their switched-off values.
chunkOthers == <<searchVars, groupVars, chatVars, locatorVars, fetchVars, panelVars, viewVars, timelineVars, transcriptVars, extractVars, mountVars, offscreenVars>>
searchOthers == <<chunkVars, groupVars, chatVars, locatorVars, fetchVars, panelVars, viewVars, timelineVars, transcriptVars, extractVars, mountVars, offscreenVars>>
groupOthers == <<chunkVars, searchVars, chatVars, locatorVars, fetchVars, panelVars, viewVars, timelineVars, transcriptVars, extractVars, mountVars, offscreenVars>>
chatOthers == <<chunkVars, searchVars, groupVars, locatorVars, fetchVars, panelVars, viewVars, timelineVars, transcriptVars, extractVars, mountVars, offscreenVars>>
locatorOthers == <<chunkVars, searchVars, groupVars, chatVars, fetchVars, panelVars, viewVars, timelineVars, transcriptVars, extractVars, mountVars, offscreenVars>>
fetchOthers == <<chunkVars, searchVars, groupVars, chatVars, locatorVars, panelVars, viewVars, timelineVars, transcriptVars, extractVars, mountVars, offscreenVars>>
panelOthers == <<chunkVars, searchVars, groupVars, chatVars, locatorVars, fetchVars, viewVars, timelineVars, transcriptVars, extractVars, mountVars, offscreenVars>>
viewOthers == <<chunkVars, searchVars, groupVars, chatVars, locatorVars, fetchVars, panelVars, timelineVars, transcriptVars, extractVars, mountVars, offscreenVars>>
timelineOthers == <<chunkVars, searchVars, groupVars, chatVars, locatorVars, fetchVars, panelVars, viewVars, transcriptVars, extractVars, mountVars, offscreenVars>>
transcriptOthers == <<chunkVars, searchVars, groupVars, chatVars, locatorVars, fetchVars, panelVars, viewVars, timelineVars, extractVars, mountVars, offscreenVars>>
extractOthers == <<chunkVars, searchVars, groupVars, chatVars, locatorVars, fetchVars, panelVars, viewVars, timelineVars, transcriptVars, mountVars, offscreenVars>>
mountOthers == <<chunkVars, searchVars, groupVars, chatVars, locatorVars, fetchVars, panelVars, viewVars, timelineVars, transcriptVars, extractVars, offscreenVars>>
offscreenOthers == <<chunkVars, searchVars, groupVars, chatVars, locatorVars, fetchVars, panelVars, viewVars, timelineVars, transcriptVars, extractVars, mountVars>>
ChunkOthersIdle == SearchIdle /\ GroupIdle /\ ChatIdle /\ LocatorIdle /\ FetchIdle /\ PanelIdle /\ ViewIdle /\ TimelineIdle /\ TranscriptIdle /\ ExtractIdle /\ MountIdle /\ OffscreenIdle
SearchOthersIdle == ChunkIdle /\ GroupIdle /\ ChatIdle /\ LocatorIdle /\ FetchIdle /\ PanelIdle /\ ViewIdle /\ TimelineIdle /\ TranscriptIdle /\ ExtractIdle /\ MountIdle /\ OffscreenIdle
GroupOthersIdle == ChunkIdle /\ SearchIdle /\ ChatIdle /\ LocatorIdle /\ FetchIdle /\ PanelIdle /\ ViewIdle /\ TimelineIdle /\ TranscriptIdle /\ ExtractIdle /\ MountIdle /\ OffscreenIdle
ChatOthersIdle == ChunkIdle /\ SearchIdle /\ GroupIdle /\ LocatorIdle /\ FetchIdle /\ PanelIdle /\ ViewIdle /\ TimelineIdle /\ TranscriptIdle /\ ExtractIdle /\ MountIdle /\ OffscreenIdle
LocatorOthersIdle == ChunkIdle /\ SearchIdle /\ GroupIdle /\ ChatIdle /\ FetchIdle /\ PanelIdle /\ ViewIdle /\ TimelineIdle /\ TranscriptIdle /\ ExtractIdle /\ MountIdle /\ OffscreenIdle
FetchOthersIdle == ChunkIdle /\ SearchIdle /\ GroupIdle /\ ChatIdle /\ LocatorIdle /\ PanelIdle /\ ViewIdle /\ TimelineIdle /\ TranscriptIdle /\ ExtractIdle /\ MountIdle /\ OffscreenIdle
PanelOthersIdle == ChunkIdle /\ SearchIdle /\ GroupIdle /\ ChatIdle /\ LocatorIdle /\ FetchIdle /\ ViewIdle /\ TimelineIdle /\ TranscriptIdle /\ ExtractIdle /\ MountIdle /\ OffscreenIdle
ViewOthersIdle == ChunkIdle /\ SearchIdle /\ GroupIdle /\ ChatIdle /\ LocatorIdle /\ FetchIdle /\ PanelIdle /\ TimelineIdle /\ TranscriptIdle /\ ExtractIdle /\ MountIdle /\ OffscreenIdle
TimelineOthersIdle == ChunkIdle /\ SearchIdle /\ GroupIdle /\ ChatIdle /\ LocatorIdle /\ FetchIdle /\ PanelIdle /\ ViewIdle /\ TranscriptIdle /\ ExtractIdle /\ MountIdle /\ OffscreenIdle
TranscriptOthersIdle == ChunkIdle /\ SearchIdle /\ GroupIdle /\ ChatIdle /\ LocatorIdle /\ FetchIdle /\ PanelIdle /\ ViewIdle /\ TimelineIdle /\ ExtractIdle /\ MountIdle /\ OffscreenIdle
ExtractOthersIdle == ChunkIdle /\ SearchIdle /\ GroupIdle /\ ChatIdle /\ LocatorIdle /\ FetchIdle /\ PanelIdle /\ ViewIdle /\ TimelineIdle /\ TranscriptIdle /\ MountIdle /\ OffscreenIdle
MountOthersIdle == ChunkIdle /\ SearchIdle /\ GroupIdle /\ ChatIdle /\ LocatorIdle /\ FetchIdle /\ PanelIdle /\ ViewIdle /\ TimelineIdle /\ TranscriptIdle /\ ExtractIdle /\ OffscreenIdle
OffscreenOthersIdle == ChunkIdle /\ SearchIdle /\ GroupIdle /\ ChatIdle /\ LocatorIdle /\ FetchIdle /\ PanelIdle /\ ViewIdle /\ TimelineIdle /\ TranscriptIdle /\ ExtractIdle /\ MountIdle

----------------------------------------------------------------------------
(* Text helpers: JavaScript string operations on character sequences.      *)

\* String.prototype.trim / split(/\s+/): the white space of the alphabet.
IsSpace(c) == c = " " \/ c = "\n"

RECURSIVE TrimStart(_)
TrimStart(s) ==
    IF s = <<>> THEN <<>>
    ELSE IF IsSpace(Head(s)) THEN TrimStart(Tail(s)) ELSE s

RECURSIVE TrimEnd(_)
TrimEnd(s) ==
    IF s = <<>> THEN <<>>
    ELSE IF IsSpace(s[Len(s)]) THEN TrimEnd(SubSeq(s, 1, Len(s) - 1)) ELSE s

\* text.trim()
Trim(s) == TrimEnd(TrimStart(s))

\* text.split(/\s+/).filter(Boolean): the non-empty white-space separated words.
RECURSIVE SplitWords(_, _, _)
SplitWords(s, cur, acc) ==
    IF s = <<>> THEN (IF cur = <<>> THEN acc ELSE Append(acc, cur))
    ELSE IF IsSpace(Head(s))
         THEN SplitWords(Tail(s), <<>>, IF cur = <<>> THEN acc ELSE Append(acc, cur))
         ELSE SplitWords(Tail(s), Append(cur, Head(s)), acc)

Words(s) == SplitWords(s, <<>>, <<>>)

\* The words of the texts of a list of cues or chunks, in order.
RECURSIVE AllWords(_)
AllWords(list) ==
    IF list = <<>> THEN <<>> ELSE Words(Head(list).text) \o AllWords(Tail(list))

----------------------------------------------------------------------------
(* Chunker: chunkTranscript(segments, targetWords).                         *)

\* currentText += (currentText ? " " : "") + seg.text, with the separator dropped
AppendCueTextNoSeparator(currentText, text) == currentText \o text

\* currentText += (currentText ? " " : "") + seg.text
AppendCueText(currentText, text) ==
    currentText \o (IF currentText # <<>> THEN <<" ">> ELSE <<>>) \o text

\* the close branch without currentStart = seg.start
StartAfterCloseKept(currentStart, seg) == currentStart

\* the close branch: currentStart = seg.start
StartAfterClose(currentStart, seg) == seg.start

\* the merge branch accumulating the cue durations
DurationAfterMergeSummed(currentDuration, seg, start) == currentDuration + seg.duration

\* the merge branch: currentDuration = seg.start + seg.duration - currentStart
DurationAfterMerge(currentDuration, seg, start) == seg.start + seg.duration - start

\* chunks.push({ text: currentText.trim(), start, duration })
MakeChunk(currentText, currentStart, currentDuration) ==
    [text |-> Trim(currentText), start |-> currentStart, duration |-> currentDuration]

\* The for loop of chunkTranscript from cue i on, then the trailing push.
RECURSIVE ChunkLoop(_, _, _, _, _, _, _)
ChunkLoop(segments, i, tw, out, currentText, currentStart, currentDuration) ==
    IF i > Len(segments)
    THEN IF Trim(currentText) # <<>>
         THEN Append(out, MakeChunk(currentText, currentStart, currentDuration))
         ELSE out
    ELSE LET seg == segments[i]
             words == Len(Words(currentText))
         IN IF words >= tw /\ Len(currentText) > 0
            THEN ChunkLoop(segments, i + 1, tw,
                           Append(out, MakeChunk(currentText, currentStart, currentDuration)),
                           seg.text, StartAfterClose(currentStart, seg), seg.duration)
            ELSE LET start == IF currentText = <<>> THEN seg.start ELSE currentStart
                 IN ChunkLoop(segments, i + 1, tw, out,
                              AppendCueText(currentText, seg.text),
                              start, DurationAfterMerge(currentDuration, seg, start))

chunkTranscript(segments, tw) == ChunkLoop(segments, 1, tw, <<>>, <<>>, 0, 0)

\* Bounds of the chunker inputs.
MaxCues == 3
MaxTargetWords == 3

\* Cue texts: one word, two words with a double space, upper case, blank.
CueTexts == { <<"a">>, <<"b", " ", " ", "A">>, <<" ">> }
CueGaps == {0, 2}
CueDurations == {1, 3}

\* Cue lists in temporal order: each start is the previous start plus a gap
\* (gap 0: two cues with the same start, as the parsers produce for a
\* missing or repeated time attribute).
RECURSIVE CueListsOfLen(_)
CueListsOfLen(n) ==
    IF n = 0 THEN { <<>> }
    ELSE { Append(l, [text |-> t,
                      start |-> (IF l = <<>> THEN 0 ELSE l[Len(l)].start) + g,
                      duration |-> d]) :
             l \in CueListsOfLen(n - 1), t \in CueTexts, g \in CueGaps, d \in CueDurations }

CueLists == UNION { CueListsOfLen(n) : n \in 0..MaxCues }

ChunkInit ==
    /\ cues \in CueLists
    /\ targetWords \in 1..MaxTargetWords
    /\ chunks = <<>>
    /\ chunkPc = "input"
    /\ ChunkOthersIdle

\* const chunks = chunkTranscript(segments)
ChunkTranscript ==
    /\ chunkPc = "input"
    /\ chunks' = chunkTranscript(cues, targetWords)
    /\ chunkPc' = "done"
    /\ UNCHANGED <<cues, targetWords, chunkOthers>>

ChunkNext == ChunkTranscript

SpecChunk == ChunkInit /\ [][ChunkNext]_vars

StartsStrictlyIncreasing(list) ==
    \A i \in 1..(Len(list) - 1) : list[i].start < list[i + 1].start

StartsNonDecreasing(list) ==
    \A i \in 1..(Len(list) - 1) : list[i].start <= list[i + 1].start

\* C7: the words of the chunk texts, in order, are the words of the cue texts,
\* in order: chunkTranscript drops, duplicates and reorders nothing.
C7_ChunkCoverage ==
    chunkPc = "done" => AllWords(chunks) = AllWords(cues)

\* C7 witness: three cues were merged into two chunks.
C7_Witness ==
    /\ chunkPc = "done"
    /\ Len(cues) = 3
    /\ Len(chunks) = 2
    /\ Len(AllWords(cues)) >= 4

\* C8 as stated: consecutive chunks have strictly increasing start times for
\* every cue list in temporal order.
C8_StrictStarts ==
    chunkPc = "done" => StartsStrictlyIncreasing(chunks)

\* C8 amended: chunk starts never decrease, and strictly increase when the
\* cue starts strictly increase.
C8_StartsFollowCues ==
    chunkPc = "done" =>
        /\ StartsNonDecreasing(chunks)
        /\ StartsStrictlyIncreasing(cues) => StartsStrictlyIncreasing(chunks)

\* C8 witness: cues with strictly increasing starts gave three chunks.
C8_Witness ==
    /\ chunkPc = "done"
    /\ Len(cues) = 3
    /\ StartsStrictlyIncreasing(cues)
    /\ Len(chunks) = 3

\* The text of the buffer after cues a..b were merged into it.
RECURSIVE RunText(_, _)
RunText(a, b) == IF a > b THEN <<>> ELSE AppendCueText(RunText(a, b - 1), cues[b].text)

\* The chunk spanning cues a..b: from the start of cue a to the end of cue b.
RunChunk(a, b) ==
    [text |-> Trim(RunText(a, b)), start |-> cues[a].start,
     duration |-> cues[b].start + cues[b].duration - cues[a].start]

\* The chunks of the runs of consecutive cues cut after the positions in S,
\* a last run of blank cues giving no chunk.
RunChunks(S) ==
    LET n == Len(cues)
        starts == {1} \cup {i + 1 : i \in S}
        StartAt(k) == CHOOSE a \in starts : Cardinality({b \in starts : b < a}) = k - 1
        m == Cardinality(starts)
        EndAt(k) == IF k = m THEN n ELSE StartAt(k + 1) - 1
        blankTail == Trim(RunText(StartAt(m), n)) = <<>>
    IN [k \in 1..(IF blankTail THEN m - 1 ELSE m) |-> RunChunk(StartAt(k), EndAt(k))]

\* C17: the chunks are the spans of consecutive runs of cues, each starting
\* at its first cue's start and lasting to its last cue's end; cues holding
\* fewer than targetWords words in all give one chunk over the whole list.
C17_ChunkSpans ==
    chunkPc = "done" =>
        /\ \E S \in SUBSET (1..(Len(cues) - 1)) : chunks = RunChunks(S)
        /\ (AllWords(cues) # <<>> /\ Len(AllWords(cues)) < targetWords) =>
              chunks = <<RunChunk(1, Len(cues))>>

\* C17 witness: "a" at 0 s for 1 s and "a" at 2 s for 3 s, under a budget of
\* 3 words, gave the one chunk "a a" from 0 s lasting 5 s.
C17_Witness ==
    /\ chunkPc = "done"
    /\ targetWords = 3
    /\ Len(cues) = 2
    /\ cues[1].text = <<"a">> /\ cues[2].text = <<"a">>
    /\ chunks = <<[text |-> <<"a", " ", "a">>, start |-> 0, duration |-> 5]>>

----------------------------------------------------------------------------
(* Retrieval index: exactSearch, semanticSearch, hybridSearch.              *)

ToLowerChar(c) == IF c = "A" THEN "a" ELSE IF c = "B" THEN "b" ELSE c

\* text.toLowerCase()
ToLowerCase(s) == [i \in 1..Len(s) |-> ToLowerChar(s[i])]

\* text.includes(q)
Includes(text, q) ==
    \E off \in 0..(Len(text) - Len(q)) : SubSeq(text, off + 1, off + Len(q)) = q

\* seg.text.includes(q): the comparison without toLowerCase() on the text
SegmentMatchesCaseSensitive(seg, q) == Includes(seg.text, q)

\* seg.text.toLowerCase().includes(q)
SegmentMatches(seg, q) == Includes(ToLowerCase(seg.text), q)

\* A score is dot / sqrt(nn), or NaN; 1 is dot = 1, nn = 1.
NaN == [nan |-> TRUE, dot |-> 0, nn |-> 1]
ScoreOne == [nan |-> FALSE, dot |-> 1, nn |-> 1]

\* for (let i = 0; i < segments.length; i++) of exactSearch; index is 0-based.
RECURSIVE ExactLoop(_, _, _, _)
ExactLoop(q, segments, i, results) ==
    IF i > Len(segments) THEN results
    ELSE ExactLoop(q, segments, i + 1,
                   IF SegmentMatches(segments[i], q)
                   THEN Append(results, [segment |-> segments[i], index |-> i - 1,
                                         score |-> ScoreOne, matchType |-> "exact"])
                   ELSE results)

\* the guard testing the query without trim()
IsBlankQueryUntrimmed(query) == query = <<>>

\* !query.trim()
IsBlankQuery(query) == Trim(query) = <<>>

exactSearch(query, segments) ==
    IF IsBlankQuery(query) THEN <<>>
    ELSE ExactLoop(Trim(ToLowerCase(query)), segments, 1, <<>>)

RECURSIVE DotTo(_, _, _)
DotTo(a, b, n) == IF n = 0 THEN 0 ELSE DotTo(a, b, n - 1) + a[n] * b[n]

\* cosineSimilarity(a, b) = dot / (sqrt(normA) * sqrt(normB)), the loop running
\* over a.length: a shorter b reads undefined (NaN), a zero norm gives 0/0.
cosineSimilarity(a, b) ==
    IF Len(b) < Len(a) THEN NaN
    ELSE LET n == Len(a)
             nn == DotTo(a, a, n) * DotTo(b, b, n)
         IN IF nn = 0 THEN NaN
            ELSE [nan |-> FALSE, dot |-> DotTo(a, b, n), nn |-> nn]

\* The sign of x - y for two scores; NaN - y and x - NaN are NaN, which
\* Array.prototype.sort reads as 0.
ScoreKey(x, nnOther) == (IF x.dot < 0 THEN -1 ELSE 1) * x.dot * x.dot * nnOther
ScoreDiffSign(x, y) ==
    IF x.nan \/ y.nan THEN 0
    ELSE LET kx == ScoreKey(x, y.nn)
             ky == ScoreKey(y, x.nn)
         IN IF kx < ky THEN -1 ELSE IF kx > ky THEN 1 ELSE 0

\* The semantic threshold 0.3 = ThresholdNum / ThresholdDen.
ThresholdNum == 3
ThresholdDen == 10

\* score > 0.3
AboveThreshold(s) ==
    /\ ~s.nan
    /\ s.dot > 0
    /\ ThresholdDen * ThresholdDen * s.dot * s.dot > ThresholdNum * ThresholdNum * s.nn

\* scored.sort((a, b) => b.score - a.score)
ScoredCompare(a, b) == ScoreDiffSign(b.score, a.score)

\* Array.prototype.sort is stable: x goes before the first y it must precede.
RECURSIVE InsertScored(_, _)
InsertScored(x, sorted) ==
    IF sorted = <<>> THEN <<x>>
    ELSE IF ScoredCompare(x, Head(sorted)) < 0 THEN <<x>> \o sorted
         ELSE <<Head(sorted)>> \o InsertScored(x, Tail(sorted))

RECURSIVE SortScored(_, _)
SortScored(list, acc) ==
    IF list = <<>> THEN acc ELSE SortScored(Tail(list), InsertScored(Head(list), acc))

\* array.slice(0, k) without its end
SliceAll(list, k) == list

\* array.slice(0, k)
Slice(list, k) == SubSeq(list, 1, IF k < Len(list) THEN k ELSE Len(list))

semanticSearch(queryEmbedding, segments, topK) ==
    LET scored == [i \in 1..Len(segments) |->
                      [segment |-> segments[i],
                       score |-> cosineSimilarity(queryEmbedding, segments[i].embedding)]]
    IN Slice(SortScored(scored, <<>>), topK)

\* the filter of hybridSearch without the exactIndices test
KeepSemanticNoDedup(exactIndices, item) == AboveThreshold(item.score)

\* !exactIndices.has(segment.index) && score > 0.3
KeepSemantic(exactIndices, item) ==
    item.segment.index \notin exactIndices /\ AboveThreshold(item.score)

\* the comparator of hybridSearch with the final difference reversed
ResultCompareAscending(a, b) ==
    IF a.matchType = "exact" /\ b.matchType # "exact" THEN -1
    ELSE IF b.matchType = "exact" /\ a.matchType # "exact" THEN 1
    ELSE ScoreDiffSign(a.score, b.score)

\* results.sort((a, b) => ...): exact matches first, then by score
ResultCompare(a, b) ==
    IF a.matchType = "exact" /\ b.matchType # "exact" THEN -1
    ELSE IF b.matchType = "exact" /\ a.matchType # "exact" THEN 1
    ELSE ScoreDiffSign(b.score, a.score)

RECURSIVE InsertResult(_, _)
InsertResult(x, sorted) ==
    IF sorted = <<>> THEN <<x>>
    ELSE IF ResultCompare(x, Head(sorted)) < 0 THEN <<x>> \o sorted
         ELSE <<Head(sorted)>> \o InsertResult(x, Tail(sorted))

RECURSIVE SortResults(_, _)
SortResults(list, acc) ==
    IF list = <<>> THEN acc ELSE SortResults(Tail(list), InsertResult(Head(list), acc))

\* hybridSearch once embedText(query) has resolved with queryEmbedding.
HybridMerge(query, segments, topK, queryEmbedding) ==
    LET exact == exactSearch(query, segments)
        exactIndices == { exact[i].index : i \in 1..Len(exact) }
        semantic == semanticSearch(queryEmbedding, segments, topK)
        kept == SelectSeq(semantic, LAMBDA item : KeepSemantic(exactIndices, item))
        pushed == [i \in 1..Len(kept) |->
                      [segment |-> kept[i].segment, index |-> kept[i].segment.index,
                       score |-> kept[i].score, matchType |-> "semantic"]]
    IN SortResults(exact \o pushed, <<>>)

hybridSearch(query, segments, topK, queryEmbedding) ==
    IF Trim(query) = <<>> THEN <<>>
    ELSE HybridMerge(query, segments, topK, queryEmbedding)

\* Bound of the chunk lists searched.
MaxSegs == 3

\* topK of hybridSearch: its default.
DefaultTopK == 8

\* Chunk texts, queries and embedding directions of the search inputs.
SegTexts == { <<"a", "b">>, <<"B", "a">>, <<"c">> }
Queries == { <<>>, <<" ">>, <<"a">>, <<"B", " ">>, <<"b", "a">> }
Vecs == { <<1, 0>>, <<1, 1>>, <<0, 1>> }
QueryVecs == { <<1, 0>>, <<1, 1>> }
TopKs == { 1, 2, DefaultTopK }

\* Chunk i of a loaded video: ten seconds long, starting at 10 * i.
Segment(text, i, embedding) ==
    [text |-> text, start |-> 10 * i, duration |-> 10, embedding |-> embedding, index |-> i]

\* embedSegments(chunks): every chunk embedded, index = position.
RECURSIVE EmbeddedListsOfLen(_)
EmbeddedListsOfLen(n) ==
    IF n = 0 THEN { <<>> }
    ELSE { Append(l, Segment(t, n - 1, e)) :
             l \in EmbeddedListsOfLen(n - 1), t \in SegTexts, e \in Vecs }

\* rawSegments.map((s, i) => ({ ...s, embedding: [], index: i }))
RECURSIVE RawListsOfLen(_)
RawListsOfLen(n) ==
    IF n = 0 THEN { <<>> }
    ELSE { Append(l, Segment(t, n - 1, <<>>)) : l \in RawListsOfLen(n - 1), t \in SegTexts }

SegmentLists ==
    UNION { EmbeddedListsOfLen(n) \cup RawListsOfLen(n) : n \in 0..MaxSegs }

SearchInit ==
    /\ sQuery \in Queries
    /\ sSegments \in SegmentLists
    /\ sTopK \in TopKs
    /\ sResults = <<>>
    /\ sPc = "input"
    /\ SearchOthersIdle

\* exactSearch(query, segments)
ExactSearch ==
    /\ sPc = "input"
    /\ sResults' = exactSearch(sQuery, sSegments)
    /\ sPc' = "exactDone"
    /\ UNCHANGED <<sQuery, sSegments, sTopK, searchOthers>>

\* hybridSearch(query, segments, topK) up to await embedText(query)
HybridSearchStart ==
    /\ sPc = "input"
    /\ IF IsBlankQuery(sQuery)
       THEN sResults' = <<>> /\ sPc' = "hybridDone"
       ELSE sResults' = sResults /\ sPc' = "embedding"
    /\ UNCHANGED <<sQuery, sSegments, sTopK, searchOthers>>

\* embedText(query) resolves: the rest of hybridSearch
EmbedQueryResolve ==
    /\ sPc = "embedding"
    /\ \E qe \in QueryVecs : sResults' = hybridSearch(sQuery, sSegments, sTopK, qe)
    /\ sPc' = "hybridDone"
    /\ UNCHANGED <<sQuery, sSegments, sTopK, searchOthers>>

\* embedText(query) rejects: hybridSearch rejects
EmbedQueryReject ==
    /\ sPc = "embedding"
    /\ sPc' = "hybridFailed"
    /\ UNCHANGED <<sQuery, sSegments, sTopK, sResults, searchOthers>>

SearchNext ==
    \/ ExactSearch
    \/ HybridSearchStart
    \/ EmbedQueryResolve
    \/ EmbedQueryReject

SpecSearch == SearchInit /\ [][SearchNext]_vars

\* Text t contains q, letter case ignored (stated apart from SegmentMatches).
SameLetter(c, d) ==
    \/ c = d
    \/ {c, d} = {"a", "A"}
    \/ {c, d} = {"b", "B"}
ContainsIgnoringCase(t, q) ==
    \E off \in 0..(Len(t) - Len(q)) :
        \A k \in 1..Len(q) : SameLetter(t[off + k], q[k])

\* results holds exactly the chunks of segments whose text contains q, each
\* once, in chunk order, with score 1, matchType exact and index = position.
ExactlyTheMatches(results, segments, q) ==
    /\ \A k \in 1..Len(results) :
          /\ results[k].index \in 0..(Len(segments) - 1)
          /\ results[k].segment = segments[results[k].index + 1]
          /\ ContainsIgnoringCase(results[k].segment.text, q)
          /\ results[k].score = ScoreOne
          /\ results[k].matchType = "exact"
    /\ \A k \in 1..(Len(results) - 1) : results[k].index < results[k + 1].index
    /\ \A i \in 1..Len(segments) :
          ContainsIgnoringCase(segments[i].text, q) =>
              \E k \in 1..Len(results) : results[k].index = i - 1

\* C18: for an empty or white-space query exactSearch and hybridSearch return
\* no result, and hybridSearch never reaches its embedText call.
C18_BlankQueryNoResults ==
    Trim(sQuery) = <<>> =>
        /\ sPc \notin {"embedding", "hybridFailed"}
        /\ sPc \in {"exactDone", "hybridDone"} => sResults = <<>>

\* C18 witness: hybridSearch returned for a white-space query over chunks
\* with embeddings.
C18_Witness ==
    /\ sPc = "hybridDone"
    /\ sQuery = <<" ">>
    /\ Len(sSegments) = MaxSegs
    /\ \A i \in 1..Len(sSegments) : Len(sSegments[i].embedding) > 0

\* C3: no chunk index appears twice in hybridSearch's output.
C3_HybridDedup ==
    sPc = "hybridDone" =>
        \A i, j \in 1..Len(sResults) : i # j => sResults[i].index # sResults[j].index

\* C3 witness: a chunk that is an exact match is also among the top semantic
\* matches above the threshold, and hybridSearch has returned.
C3_Witness ==
    /\ sPc = "hybridDone"
    /\ \E qe \in QueryVecs, k \in 1..Len(sResults) :
          /\ sResults[k].matchType = "exact"
          /\ sResults[k].segment.embedding # <<>>
          /\ AboveThreshold(cosineSimilarity(qe, sResults[k].segment.embedding))
          /\ sResults = hybridSearch(sQuery, sSegments, sTopK, qe)
    /\ \E k \in 1..Len(sResults) : sResults[k].matchType = "semantic"

\* C4: exact results precede semantic results, exact results are in chunk
\* order and semantic results in descending score order.
C4_HybridOrdering ==
    sPc = "hybridDone" =>
        \A i, j \in 1..Len(sResults) :
            i < j =>
                /\ ~(sResults[i].matchType = "semantic" /\ sResults[j].matchType = "exact")
                /\ (sResults[i].matchType = "exact" /\ sResults[j].matchType = "exact")
                      => sResults[i].index < sResults[j].index
                /\ (sResults[i].matchType = "semantic" /\ sResults[j].matchType = "semantic")
                      => ScoreDiffSign(sResults[i].score, sResults[j].score) >= 0

\* C4 witness: an exact result, then two semantic results with different
\* scores, the higher-scored one from the later chunk.
C4_Witness ==
    /\ sPc = "hybridDone"
    /\ Len(sResults) = 3
    /\ sResults[1].matchType = "exact"
    /\ sResults[2].matchType = "semantic"
    /\ sResults[3].matchType = "semantic"
    /\ ScoreDiffSign(sResults[2].score, sResults[3].score) = 1
    /\ sResults[2].index > sResults[3].index

\* The semantic results of a hybridSearch output.
SemanticResults(results) ==
    { k \in 1..Len(results) : results[k].matchType = "semantic" }

\* The chunks of segments scoring strictly higher than score against qe.
HigherScored(qe, segments, score) ==
    { j \in 1..Len(segments) :
        ScoreDiffSign(cosineSimilarity(qe, segments[j].embedding), score) = 1 }

\* C30: every semantic result of hybridSearch is a chunk of the list that
\* fewer than topK chunks beat in cosine similarity to the query, scores
\* strictly above 0.3 and does not contain the query; so there are at most
\* topK semantic results.
C30_SemanticResultsTopK ==
    sPc = "hybridDone" =>
        /\ Cardinality(SemanticResults(sResults)) <= sTopK
        /\ \E qe \in QueryVecs :
              \A k \in SemanticResults(sResults) :
                  LET r == sResults[k]
                  IN /\ r.index + 1 \in 1..Len(sSegments)
                     /\ r.segment = sSegments[r.index + 1]
                     /\ r.score = cosineSimilarity(qe, r.segment.embedding)
                     /\ Cardinality(HigherScored(qe, sSegments, r.score)) < sTopK
                     /\ AboveThreshold(r.score)
                     /\ ~SegmentMatches(r.segment, Trim(ToLowerCase(sQuery)))

\* C30 witness: hybridSearch has returned topK semantic results while a
\* further chunk, also above the threshold and not an exact match, was cut.
C30_Witness ==
    /\ sPc = "hybridDone"
    /\ sTopK < Len(sSegments)
    /\ Cardinality(SemanticResults(sResults)) = sTopK
    /\ \E qe \in QueryVecs :
          /\ sResults = hybridSearch(sQuery, sSegments, sTopK, qe)
          /\ \E j \in 1..Len(sSegments) :
                /\ AboveThreshold(cosineSimilarity(qe, sSegments[j].embedding))
                /\ ~SegmentMatches(sSegments[j], Trim(ToLowerCase(sQuery)))
                /\ \A k \in 1..Len(sResults) : sResults[k].index # j - 1

\* C9 as stated, for the queries that are not blank: exactSearch returns
\* exactly the chunks whose text contains the query itself, letter case ignored.
C9_ExactMatchesQuery ==
    (sPc = "exactDone" /\ Trim(sQuery) # <<>>) =>
        ExactlyTheMatches(sResults, sSegments, sQuery)

\* C9 amended: exactSearch returns exactly the chunks whose text contains the
\* trimmed query, letter case ignored, and nothing for a blank query.
C9_ExactMatchesTrimmedQuery ==
    sPc = "exactDone" =>
        IF Trim(sQuery) = <<>> THEN sResults = <<>>
        ELSE ExactlyTheMatches(sResults, sSegments, Trim(sQuery))

\* C9 witness: a query in another letter case than the one chunk it occurs in.
C9_Witness ==
    /\ sPc = "exactDone"
    /\ sQuery = <<"b", "a">>
    /\ Len(sSegments) = 3
    /\ Len(sResults) = 1
    /\ sResults[1].segment.text = <<"B", "a">>
    /\ sResults[1].index = 1

----------------------------------------------------------------------------
(* Segmenter: timeBasedGrouping, semanticGrouping, groupIntoBlocks.         *)

MIN_SECS == 90
TARGET_SECS == 150
MAX_BLOCKS == 25
WINDOW == 3

\* segs[i] of the code, i counted from 0.
At(segs, i) == segs[i + 1]

\* last.start + (last.duration || 0)
EndOf(seg) == seg.start + seg.duration

\* { startTime, endTime, title: null, segments: blockSegs }
Block(startTime, blockSegs) ==
    [startTime |-> startTime, endTime |-> EndOf(blockSegs[Len(blockSegs)]),
     title |-> "null", segments |-> blockSegs]

\* the close test always passing
BlockIsFullAlways(seg, startTime) == TRUE

\* seg.start - startTime >= TARGET_SECS
BlockIsFull(seg, startTime) == seg.start - startTime >= TARGET_SECS

\* the for loop of timeBasedGrouping without the trailing block
RECURSIVE TimeLoopNoTrailing(_, _, _, _, _)
TimeLoopNoTrailing(segs, i, blocks, blockSegs, startTime) ==
    IF i > Len(segs) THEN blocks
    ELSE LET seg == segs[i]
             pushed == Append(blockSegs, seg)
         IN IF BlockIsFull(seg, startTime)
            THEN TimeLoopNoTrailing(segs, i + 1, Append(blocks, Block(startTime, pushed)),
                                    <<>>, EndOf(seg))
            ELSE TimeLoopNoTrailing(segs, i + 1, blocks, pushed, startTime)

\* The for loop of timeBasedGrouping from chunk i (1-based) on, then the
\* trailing block.
RECURSIVE TimeLoop(_, _, _, _, _)
TimeLoop(segs, i, blocks, blockSegs, startTime) ==
    IF i > Len(segs)
    THEN IF blockSegs # <<>> THEN Append(blocks, Block(startTime, blockSegs)) ELSE blocks
    ELSE LET seg == segs[i]
             pushed == Append(blockSegs, seg)
         IN IF BlockIsFull(seg, startTime)
            THEN TimeLoop(segs, i + 1, Append(blocks, Block(startTime, pushed)),
                          <<>>, EndOf(seg))
            ELSE TimeLoop(segs, i + 1, blocks, pushed, startTime)

timeBasedGrouping(segs) ==
    IF segs = <<>> THEN <<>> ELSE TimeLoop(segs, 1, <<>>, <<>>, segs[1].start)

\* segs[n - 1].start + (segs[n - 1].duration || 0)
TotalDuration(segs) == EndOf(segs[Len(segs)])

\* Math.round(x / TARGET_SECS) for x >= 0
RoundDiv(x, d) == (2 * x + d) \div (2 * d)

Min2(a, b) == IF a < b THEN a ELSE b
Max2(a, b) == IF a > b THEN a ELSE b

\* Math.min(MAX_BLOCKS, Math.max(2, Math.round(totalDuration / TARGET_SECS)))
TargetCount(segs) == Min2(MAX_BLOCKS, Max2(2, RoundDiv(TotalDuration(segs), TARGET_SECS)))

\* avgVec of the embeddings of segs[from .. to - 1] (0-based), times their
\* number: the sum. cosine is unchanged by the common positive factor.
RECURSIVE avgVec(_, _, _)
avgVec(segs, from, to) ==
    IF from >= to THEN <<0, 0>>
    ELSE LET e == At(segs, from).embedding
             r == avgVec(segs, from + 1, to)
         IN <<e[1] + r[1], e[2] + r[2]>>

\* cosine(a, b): 1 when a norm is 0, else dot / (|a| |b|), within [-1, 1]
cosine(a, b) ==
    LET nn == DotTo(a, a, Len(a)) * DotTo(b, b, Len(b))
    IN IF nn = 0 THEN ScoreOne ELSE [nan |-> FALSE, dot |-> DotTo(a, b, Len(a)), nn |-> nn]

\* Step 1: sims, one { idx, score } per interior position WINDOW .. n-WINDOW-1
Sims(segs) ==
    LET n == Len(segs)
    IN [j \in 1..(n - 2 * WINDOW) |->
          LET i == WINDOW + j - 1
          IN [idx |-> i,
              score |-> cosine(avgVec(segs, i - WINDOW, i), avgVec(segs, i, i + WINDOW))]]

\* Step 2: p.score < prev && p.score < next, a missing neighbour counting as 1
IsLocalMinimum(sims, j) ==
    LET prev == IF j > 1 THEN sims[j - 1].score ELSE ScoreOne
        next == IF j < Len(sims) THEN sims[j + 1].score ELSE ScoreOne
    IN /\ ScoreDiffSign(sims[j].score, prev) < 0
       /\ ScoreDiffSign(sims[j].score, next) < 0

RECURSIVE MinimaFrom(_, _)
MinimaFrom(sims, j) ==
    IF j > Len(sims) THEN <<>>
    ELSE (IF IsLocalMinimum(sims, j) THEN <<sims[j]>> ELSE <<>>) \o MinimaFrom(sims, j + 1)

\* Step 3: minima.sort((a, b) => a.score - b.score), a stable sort
RECURSIVE InsertMinimum(_, _)
InsertMinimum(x, sorted) ==
    IF sorted = <<>> THEN <<x>>
    ELSE IF ScoreDiffSign(x.score, Head(sorted).score) < 0 THEN <<x>> \o sorted
         ELSE <<Head(sorted)>> \o InsertMinimum(x, Tail(sorted))

RECURSIVE SortMinima(_, _)
SortMinima(list, acc) ==
    IF list = <<>> THEN acc ELSE SortMinima(Tail(list), InsertMinimum(Head(list), acc))

Abs(x) == IF x < 0 THEN -x ELSE x

\* the tooClose test switched off
TooCloseNever(segs, chosen, t) == FALSE

\* chosen.some((c) => Math.abs(segs[c].start - t) < MIN_SECS)
TooClose(segs, chosen, t) ==
    \E k \in 1..Len(chosen) : Abs(At(segs, chosen[k]).start - t) < MIN_SECS

\* the break test switched off
EnoughChosenNever(chosen, targetCount) == FALSE

\* chosen.length >= targetCount - 1
EnoughChosen(chosen, targetCount) == Len(chosen) >= targetCount - 1

\* Step 4: the greedy loop over the sorted minima
RECURSIVE Choose(_, _, _, _)
Choose(segs, minima, targetCount, chosen) ==
    IF minima = <<>> \/ EnoughChosen(chosen, targetCount) THEN chosen
    ELSE LET idx == Head(minima).idx
             t == At(segs, idx).start
             skip == \/ t < MIN_SECS
                     \/ TotalDuration(segs) - t < MIN_SECS
                     \/ TooClose(segs, chosen, t)
         IN Choose(segs, Tail(minima), targetCount,
                   IF skip THEN chosen ELSE Append(chosen, idx))

\* chosen.sort((a, b) => a - b)
RECURSIVE SortAscending(_)
SortAscending(list) ==
    IF list = <<>> THEN <<>>
    ELSE LET m == CHOOSE x \in { list[k] : k \in 1..Len(list) } :
                     \A k \in 1..Len(list) : x <= list[k]
         IN <<m>> \o SortAscending(SelectSeq(list, LAMBDA x : x # m))

\* The accepted boundaries of semanticGrouping, sorted (empty on the fallback).
Chosen(segs) ==
    IF Len(segs) < WINDOW * 2 + 2 THEN <<>>
    ELSE SortAscending(Choose(segs, SortMinima(MinimaFrom(Sims(segs), 1), <<>>),
                              TargetCount(segs), <<>>))

\* Step 5: cuts = [0, ...chosen, n]; one block per pair of consecutive cuts
BlocksOfCuts(segs, cuts) ==
    [i \in 1..(Len(cuts) - 1) |->
        LET blockSegs == SubSeq(segs, cuts[i] + 1, cuts[i + 1])
        IN Block(blockSegs[1].start, blockSegs)]

semanticGrouping(segs) ==
    IF Len(segs) < WINDOW * 2 + 2 THEN timeBasedGrouping(segs)
    ELSE BlocksOfCuts(segs, <<0>> \o Chosen(segs) \o <<Len(segs)>>)

HasEmbeddings(segs) == Len(segs[1].embedding) > 0

groupIntoBlocks(segs) ==
    IF segs = <<>> THEN [blocks |-> <<>>, method |-> "time"]
    ELSE IF HasEmbeddings(segs)
         THEN [blocks |-> semanticGrouping(segs), method |-> "semantic"]
         ELSE [blocks |-> timeBasedGrouping(segs), method |-> "time"]

\* Bounds of the segmenter inputs: chunks with embeddings, chunks without.
MaxGroupSegs == 10
MaxLongSegs == 52

\* Chunk lengths in seconds and embedding directions of the segmenter inputs.
GroupDurations == { 20, 30, 40, 60 }
LongDurations == GroupDurations \cup { TARGET_SECS }
GroupVecs == { <<1, 0>>, <<0, 1>> }

\* Silence between two chunks, in seconds.
GroupGaps == { 0, 40 }

\* Chunks of d seconds each, g seconds of silence apart; chunk i starts at
\* (d + g) * i.
GroupSegment(i, d, g, embedding) ==
    [text |-> <<"a">>, start |-> (d + g) * i, duration |-> d, embedding |-> embedding,
     index |-> i]

RECURSIVE GroupListsOfLen(_, _, _)
GroupListsOfLen(n, d, g) ==
    IF n = 0 THEN { <<>> }
    ELSE { Append(l, GroupSegment(n - 1, d, g, e)) :
             l \in GroupListsOfLen(n - 1, d, g), e \in GroupVecs }

RawGroupList(n, d, g) == [i \in 1..n |-> GroupSegment(i - 1, d, g, <<>>)]

GroupLists ==
    UNION { GroupListsOfLen(n, d, g) :
              n \in 0..MaxGroupSegs, d \in GroupDurations, g \in GroupGaps }
    \cup { RawGroupList(n, d, g) : n \in 0..MaxLongSegs, d \in LongDurations, g \in GroupGaps }

GroupInit ==
    /\ gSegs \in GroupLists
    /\ gBlocks = <<>>
    /\ gMethod = "time"
    /\ gChosen = <<>>
    /\ gPc = "input"
    /\ GroupOthersIdle

\* const { blocks: newBlocks, method } = groupIntoBlocks(segments)
GroupIntoBlocks ==
    /\ gPc = "input"
    /\ LET r == groupIntoBlocks(gSegs)
       IN /\ gBlocks' = r.blocks
          /\ gMethod' = r.method
          /\ gChosen' = IF r.method = "semantic" THEN Chosen(gSegs) ELSE <<>>
    /\ gPc' = "done"
    /\ UNCHANGED <<gSegs, groupOthers>>

GroupNext == GroupIntoBlocks

SpecGroup == GroupInit /\ [][GroupNext]_vars

\* The boundary-detection path of semanticGrouping was taken.
OnSemanticPath == gMethod = "semantic" /\ Len(gSegs) >= WINDOW * 2 + 2

\* C2 as stated: the segmenter returns at least 2 and at most 25 blocks.
C2_BlockCountBounds ==
    gPc = "done" => (Len(gBlocks) >= 2 /\ Len(gBlocks) <= MAX_BLOCKS)

\* C2 amended: no block for an empty list, else at least 1 block; on the
\* boundary-detection path at most targetCount <= 25 blocks; on the time-based
\* path at most 1 + floor((last start - first start) / 150) blocks.
C2_BlockCountByPath ==
    gPc = "done" =>
        /\ gSegs = <<>> => gBlocks = <<>>
        /\ gSegs # <<>> => Len(gBlocks) >= 1
        /\ OnSemanticPath =>
              /\ Len(gBlocks) <= TargetCount(gSegs)
              /\ TargetCount(gSegs) <= MAX_BLOCKS
        /\ (gSegs # <<>> /\ ~OnSemanticPath) =>
              Len(gBlocks) <= 1 + (gSegs[Len(gSegs)].start - gSegs[1].start) \div TARGET_SECS

\* C2 witness: the boundary-detection path returned targetCount blocks.
C2_Witness ==
    /\ gPc = "done"
    /\ OnSemanticPath
    /\ Len(gBlocks) = 2
    /\ TargetCount(gSegs) = 2
    /\ gSegs[1].duration = 30

\* C10: accepted boundaries start at least 90 s apart, at least 90 s after
\* the video start and at least 90 s before the video end.
C10_BoundaryFloor ==
    (gPc = "done" /\ OnSemanticPath) =>
        /\ Len(gBlocks) = Len(gChosen) + 1
        /\ \A k \in 1..Len(gChosen) :
              LET t == At(gSegs, gChosen[k]).start
              IN /\ gBlocks[k + 1].startTime = t
                 /\ t >= MIN_SECS
                 /\ TotalDuration(gSegs) - t >= MIN_SECS
                 /\ \A m \in 1..Len(gChosen) :
                       m # k => Abs(At(gSegs, gChosen[m]).start - t) >= MIN_SECS

\* C10 witness: two boundaries were accepted.
C10_Witness ==
    /\ gPc = "done"
    /\ OnSemanticPath
    /\ Len(gChosen) = 2

BlockDuration(block) == block.endTime - block.startTime

\* A video too short for two blocks of TARGET_SECS.
IsSmallTotal(segs) == TotalDuration(segs) < 2 * TARGET_SECS

----------------------------------------------------------------------------
(* SEARCH_REQUEST handler of the content script and the search_transcript   *)
(* tool of the background worker. A string is a sequence of pieces: single  *)
(* characters, the line break "\n", or a literal without a line break.     *)

\* hybridSearch(query, segments, 15) and .slice(0, 15) of the handler
MaxResults == 15

Digit(d) == <<"0", "1", "2", "3", "4", "5", "6", "7", "8", "9">>[d + 1]

\* String(n) for n >= 0
RECURSIVE Digits(_)
Digits(n) == IF n < 10 THEN <<Digit(n)>> ELSE Digits(n \div 10) \o <<Digit(n % 10)>>

\* String(n).padStart(2, "0")
Pad2(n) == IF n < 10 THEN <<"0">> \o Digits(n) ELSE Digits(n)

formatTimestamp(seconds) ==
    LET h == seconds \div 3600
        m == (seconds % 3600) \div 60
        sec == seconds % 60
    IN IF h > 0 THEN Digits(h) \o <<":">> \o Pad2(m) \o <<":">> \o Pad2(sec)
       ELSE Digits(m) \o <<":">> \o Pad2(sec)

\* `[${formatTimestamp(r.segment.start)}] ${r.segment.text}`
ResultLine(r) ==
    <<"[">> \o formatTimestamp(r.segment.start) \o <<"]", " ">> \o r.segment.text

\* lines.join("\n")
RECURSIVE JoinLines(_)
JoinLines(lines) ==
    IF lines = <<>> THEN <<>>
    ELSE IF Len(lines) = 1 THEN lines[1]
    ELSE lines[1] \o <<"\n">> \o JoinLines(Tail(lines))

NoMatchText == <<"No matching segments found.">>
NoTranscriptText == <<"No transcript loaded yet.">>
NoResultsText == <<"No results found for this query.">>
NoTabText == <<"Search unavailable (no tab context).">>

formatResults(results) ==
    IF results = <<>> THEN NoMatchText
    ELSE JoinLines([i \in 1..Len(results) |-> ResultLine(results[i])])

\* sendResponse({ results })
Response(pieces) == [type |-> "object", results |-> JsString(pieces)]

\* segments.some((s) => s.embedding.length > 0)
SomeEmbedding(segments) == \E i \in 1..Len(segments) : Len(segments[i].embedding) > 0

\* hybridSearch(query, segments, 15).then(formatResults)
HybridResponse(query, segments, queryEmbedding) ==
    Response(formatResults(hybridSearch(query, segments, MaxResults, queryEmbedding)))

\* exactSearch(query, segments).slice(0, 15), formatted
ExactResponse(query, segments) ==
    Response(formatResults(Slice(exactSearch(query, segments), MaxResults)))

\* the continuations of hybridSearch reading the store again
RequestSegmentsReread(captured, current) == current

\* const segments = getSegments(): the listener's continuations keep the
\* array they captured
RequestSegments(captured, current) == captured

\* the callback of execute rejecting on a messaging error
ExecuteCallbackRejecting(lastError, response) ==
    IF lastError \/ response = Undefined
    THEN [state |-> "rejected"]
    ELSE [state |-> "resolved", value |-> response.results]

\* the callback of chrome.tabs.sendMessage in execute
ExecuteCallback(lastError, response) ==
    IF lastError \/ response = Undefined
    THEN [state |-> "resolved", value |-> JsString(NoResultsText)]
    ELSE [state |-> "resolved", value |-> response.results]

\* maxSteps of streamText
MaxSteps == 4

\* Bounds of a chat turn: chunks in the store, text deltas streamed.
MaxStoreSegs == 16
MaxDeltas == 2

\* Chunk i of the loaded video: "ab" or, on odd positions of an alternating
\* transcript, "c"; 400 s long, so that late chunks start after one hour.
StoreSegment(i, alternate, embedded) ==
    [text |-> IF alternate /\ i % 2 = 1 THEN <<"c">> ELSE <<"a", "b">>,
     start |-> 400 * i, duration |-> 400,
     embedding |-> IF ~embedded THEN <<>>
                   ELSE IF alternate /\ i % 2 = 1 THEN <<0, 1>> ELSE <<1, 0>>,
     index |-> i]

StoreSizes == { 0, 2, MaxStoreSegs }

\* setSegments(embeddedOrRaw) of the loaded video
Stores ==
    { [i \in 1..n |-> StoreSegment(i - 1, alt, emb)] :
        n \in StoreSizes, alt \in BOOLEAN, emb \in BOOLEAN }

ChatQueries == { <<"a">>, <<" ">> }
ChatQueryVecs == { <<1, 0>> }
TabIds == { "none", "tab" }

ChatInit ==
    /\ store \in Stores
    /\ bgPc = "idle"
    /\ tabId = "none"
    /\ step = 0
    /\ toolSteps = {}
    /\ toolCalls = 0
    /\ toolOutcome = NoOutcome
    /\ fullText = 0
    /\ tabEvents = <<>>
    /\ reqPc = "none"
    /\ reqQuery = <<>>
    /\ reqSegments = <<>>
    /\ reqResponse = Undefined
    /\ ChatOthersIdle

\* chrome.tabs.sendMessage(tabId, event) when the turn has a tab
SendToTab(event) == IF tabId # "none" THEN Append(tabEvents, event) ELSE tabEvents

\* CHAT_STREAM arrives: handleChatStream up to the streamText call
ChatStreamStart ==
    /\ bgPc = "idle"
    /\ \E tid \in TabIds, known \in BOOLEAN :
          /\ tabId' = tid
          /\ IF known
             THEN bgPc' = "streaming" /\ step' = 1
             ELSE bgPc' = "failed" /\ step' = step
    /\ UNCHANGED <<store, toolSteps, toolCalls, toolOutcome, fullText, tabEvents,
                   reqPc, reqQuery, reqSegments, reqResponse, chatOthers>>

\* fullStream yields a text-delta: fullText += delta, CHAT_CHUNK to the tab
ModelTextDelta ==
    /\ bgPc = "streaming"
    /\ toolOutcome.state = "none"
    /\ fullText < MaxDeltas
    /\ fullText' = fullText + 1
    /\ tabEvents' = SendToTab("CHAT_CHUNK")
    /\ UNCHANGED <<store, bgPc, tabId, step, toolSteps, toolCalls, toolOutcome,
                   reqPc, reqQuery, reqSegments, reqResponse, chatOthers>>

\* The model calls search_transcript in the current step: CHAT_SEARCHING to
\* the tab, and execute({ query }) starts.
ModelToolCall ==
    /\ bgPc = "streaming"
    /\ toolOutcome.state = "none"
    /\ \E q \in ChatQueries :
          /\ toolSteps' = toolSteps \cup {step}
          /\ toolCalls' = toolCalls + 1
          /\ tabEvents' = SendToTab("CHAT_SEARCHING")
          /\ IF tabId = "none"
             THEN /\ toolOutcome' = [state |-> "resolved", value |-> JsString(NoTabText)]
                  /\ UNCHANGED <<reqPc, reqQuery>>
             ELSE /\ toolOutcome' = [state |-> "pending"]
                  /\ reqPc' = "sent"
                  /\ reqQuery' = q
    /\ UNCHANGED <<store, bgPc, tabId, step, fullText, reqSegments, reqResponse, chatOthers>>

\* The content script's listener receives SEARCH_REQUEST.
ContentSearchRequest ==
    /\ reqPc = "sent"
    /\ LET segments == store
       IN /\ reqSegments' = segments
          /\ IF segments = <<>>
             THEN reqResponse' = Response(NoTranscriptText) /\ reqPc' = "responded"
             ELSE IF SomeEmbedding(segments)
             THEN IF IsBlankQuery(reqQuery)
                  THEN /\ reqResponse' = Response(formatResults(<<>>))
                       /\ reqPc' = "responded"
                  ELSE reqResponse' = reqResponse /\ reqPc' = "embedding"
             ELSE reqResponse' = ExactResponse(reqQuery, segments) /\ reqPc' = "responded"
    /\ UNCHANGED <<store, bgPc, tabId, step, toolSteps, toolCalls, toolOutcome, fullText,
                   tabEvents, reqQuery, chatOthers>>

\* embedText(query) resolves inside hybridSearch: .then(formatResults)
ContentEmbedResolve ==
    /\ reqPc = "embedding"
    /\ \E qe \in ChatQueryVecs : reqResponse' = HybridResponse(reqQuery, RequestSegments(reqSegments, store), qe)
    /\ reqPc' = "responded"
    /\ UNCHANGED <<store, bgPc, tabId, step, toolSteps, toolCalls, toolOutcome, fullText,
                   tabEvents, reqQuery, reqSegments, chatOthers>>

\* embedText(query) rejects: .catch falls back to exactSearch
ContentEmbedReject ==
    /\ reqPc = "embedding"
    /\ reqResponse' = ExactResponse(reqQuery, RequestSegments(reqSegments, store))
    /\ reqPc' = "responded"
    /\ UNCHANGED <<store, bgPc, tabId, step, toolSteps, toolCalls, toolOutcome, fullText,
                   tabEvents, reqQuery, reqSegments, chatOthers>>

\* No listener answers (tab closed or navigated): chrome.runtime.lastError
SearchRequestLost ==
    /\ reqPc \in {"sent", "embedding"}
    /\ reqResponse' = Undefined
    /\ reqPc' = "lost"
    /\ UNCHANGED <<store, bgPc, tabId, step, toolSteps, toolCalls, toolOutcome, fullText,
                   tabEvents, reqQuery, reqSegments, chatOthers>>

\* The callback of chrome.tabs.sendMessage runs in execute.
ToolCallback ==
    /\ reqPc \in {"responded", "lost"}
    /\ toolOutcome' = ExecuteCallback(reqPc = "lost", reqResponse)
    /\ reqPc' = "none"
    /\ UNCHANGED <<store, bgPc, tabId, step, toolSteps, toolCalls, fullText, tabEvents,
                   reqQuery, reqSegments, reqResponse, chatOthers>>

\* The step that called the tool ends with its result: streamText starts the
\* next step while fewer than maxSteps steps have run, else the stream ends
\* and sendResponse({ ok: true, fullText }) runs.
ToolStepFinish ==
    /\ bgPc = "streaming"
    /\ toolOutcome.state = "resolved"
    /\ toolOutcome' = NoOutcome
    /\ IF step < MaxSteps
       THEN step' = step + 1 /\ bgPc' = bgPc
       ELSE step' = step /\ bgPc' = "done"
    /\ UNCHANGED <<store, tabId, toolSteps, toolCalls, fullText, tabEvents,
                   reqPc, reqQuery, reqSegments, reqResponse, chatOthers>>

\* The step ends without a tool call: the stream ends, sendResponse({ ok })
ModelFinish ==
    /\ bgPc = "streaming"
    /\ toolOutcome.state = "none"
    /\ bgPc' = "done"
    /\ UNCHANGED <<store, tabId, step, toolSteps, toolCalls, toolOutcome, fullText,
                   tabEvents, reqPc, reqQuery, reqSegments, reqResponse, chatOthers>>

\* streamText or the stream throws, or the tool's promise rejected:
\* sendResponse({ error })
StreamError ==
    /\ bgPc = "streaming"
    /\ bgPc' = "failed"
    /\ UNCHANGED <<store, tabId, step, toolSteps, toolCalls, toolOutcome, fullText,
                   tabEvents, reqPc, reqQuery, reqSegments, reqResponse, chatOthers>>

ChatNext ==
    \/ ChatStreamStart
    \/ ModelTextDelta
    \/ ModelToolCall
    \/ ContentSearchRequest
    \/ ContentEmbedResolve
    \/ ContentEmbedReject
    \/ SearchRequestLost
    \/ ToolCallback
    \/ ToolStepFinish
    \/ ModelFinish
    \/ StreamError

SpecChat == ChatInit /\ [][ChatNext]_vars

\* The lines of a string: its pieces split at every "\n".
\* text.split("\n")
LinesOf(s) ==
    LET breaks == {i \in 1..Len(s) : s[i] = "\n"}
        n == Cardinality(breaks) + 1
        BreakAt(k) == CHOOSE i \in breaks : Cardinality({j \in breaks : j < i}) = k - 1
    IN [k \in 1..n |->
           SubSeq(s, IF k = 1 THEN 1 ELSE BreakAt(k - 1) + 1,
                     IF k = n THEN Len(s) ELSE BreakAt(k) - 1)]

IsDigit(c) == c \in {"0", "1", "2", "3", "4", "5", "6", "7", "8", "9"}

\* M:SS or H:MM:SS, the minutes or hours written without padding.
IsTimestamp(ts) ==
    LET n == Len(ts)
        DigitsAt(from, to) == from <= to /\ \A k \in from..to : IsDigit(ts[k])
    IN \/ /\ n >= 4
          /\ DigitsAt(1, n - 3) /\ ts[n - 2] = ":" /\ DigitsAt(n - 1, n)
       \/ /\ n >= 7
          /\ DigitsAt(1, n - 6) /\ ts[n - 5] = ":" /\ DigitsAt(n - 4, n - 3)
          /\ ts[n - 2] = ":" /\ DigitsAt(n - 1, n)

\* "[timestamp] chunk text"
IsResultLine(line) ==
    /\ Len(line) >= 1
    /\ line[1] = "["
    /\ \E p \in 2..(Len(line) - 2) :
          /\ line[p] = "]"
          /\ line[p + 1] = " "
          /\ IsTimestamp(SubSeq(line, 2, p - 1))

\* C1: a chat turn runs at most 4 steps and executes the tool at most 3
\* times; after tool calls in steps 1 to 3, step 4 holds no tool call.
C1_ToolBudget ==
    /\ step <= MaxSteps
    /\ toolCalls <= MaxSteps - 1
    /\ (1..(MaxSteps - 1)) \subseteq toolSteps => MaxSteps \notin toolSteps

\* C5: a SEARCH_REQUEST answered with search results holds at most 15 lines,
\* each of the form "[timestamp] chunk text" (the two literal answers for no
\* transcript and no match apart).
C5_AtMost15Lines ==
    reqPc = "responded" =>
        LET text == reqResponse.results.pieces
        IN \/ text \in {NoTranscriptText, NoMatchText}
           \/ /\ Len(LinesOf(text)) <= MaxResults
              /\ \A k \in 1..Len(LinesOf(text)) : IsResultLine(LinesOf(text)[k])

\* C6: execute never rejects, what it resolves with is a string, and while
\* it is pending its request is with the content script's listener, with
\* the embedding call of hybridSearch, or on its way back to the callback.
C6_ExecuteResolvesString ==
    /\ toolOutcome.state # "rejected"
    /\ toolOutcome.state = "resolved" => toolOutcome.value.type = "string"
    /\ toolOutcome.state = "pending" => reqPc \in {"sent", "embedding", "responded", "lost"}

\* C6 witness: hybrid search failed in the content script and execute
\* resolved with the exact-search fallback (15 of the 16 matching chunks).
C6_Witness ==
    /\ toolOutcome.state = "resolved"
    /\ Len(reqSegments) = MaxStoreSegs
    /\ SomeEmbedding(reqSegments)
    /\ toolOutcome.value = ExactResponse(reqQuery, reqSegments).results
    /\ Len(LinesOf(toolOutcome.value.pieces)) = MaxResults

----------------------------------------------------------------------------
(* Track locator: cleanBase of fetchTranscriptData. A locator is a sequence *)
(* of tokens: its part before the query as one token, "?", and the query's  *)
(* separators "&" and "=" around name and value tokens.                     *)

AbsoluteBase == "https://www.youtube.com/api/timedtext"
UpperCaseBase == "HTTPS://WWW.YOUTUBE.COM/api/timedtext"
RelativeBase == "/api/timedtext"

\* The index of the first token of s equal to sep.
FirstIndex(s, sep) ==
    CHOOSE i \in 1..Len(s) : s[i] = sep /\ \A j \in 1..(i - 1) : s[j] # sep

Contains(s, sep) == \E i \in 1..Len(s) : s[i] = sep

\* s.split(sep)
RECURSIVE SplitAt(_, _)
SplitAt(s, sep) ==
    IF ~Contains(s, sep) THEN <<s>>
    ELSE LET i == FirstIndex(s, sep)
         IN <<SubSeq(s, 1, i - 1)>> \o SplitAt(SubSeq(s, i + 1, Len(s)), sep)

\* application/x-www-form-urlencoded decoding: "+" is a space, a percent
\* escape is the character it encodes
DecodeToken(t) ==
    IF t = "+" THEN " "
    ELSE IF t = "e%78p" THEN "exp"
    ELSE IF t = "%3D" THEN "="
    ELSE t

\* application/x-www-form-urlencoded encoding
EncodeToken(t) ==
    IF t = " " THEN "+"
    ELSE IF t = "=" THEN "%3D"
    ELSE t

Decode(s) == [i \in 1..Len(s) |-> DecodeToken(s[i])]
Encode(s) == [i \in 1..Len(s) |-> EncodeToken(s[i])]

\* One name-value tuple of the query: the name ends at the first "=".
ParseTuple(part) ==
    IF Contains(part, "=")
    THEN LET i == FirstIndex(part, "=")
         IN [name |-> Decode(SubSeq(part, 1, i - 1)),
             value |-> Decode(SubSeq(part, i + 1, Len(part)))]
    ELSE [name |-> Decode(part), value |-> <<>>]

\* The list of url.searchParams: the non-empty "&"-separated parts, parsed.
ParseQuery(query) ==
    LET parts == SelectSeq(SplitAt(query, "&"), LAMBDA part : part # <<>>)
    IN [k \in 1..Len(parts) |-> ParseTuple(parts[k])]

RECURSIVE SerializeQuery(_)
SerializeQuery(list) ==
    IF list = <<>> THEN <<>>
    ELSE Encode(list[1].name) \o <<"=">> \o Encode(list[1].value)
         \o (IF Len(list) = 1 THEN <<>> ELSE <<"&">> \o SerializeQuery(Tail(list)))

ParseFailure == [ok |-> FALSE]

\* new URL(baseUrl): a TypeError without a scheme; scheme and host in lower
\* case; query null without a "?"
ParseUrl(baseUrl) ==
    IF baseUrl = <<>> \/ Head(baseUrl) \notin {AbsoluteBase, UpperCaseBase} THEN ParseFailure
    ELSE [ok |-> TRUE, base |-> AbsoluteBase,
          hasQuery |-> Len(baseUrl) > 1,
          query |-> IF Len(baseUrl) > 1 THEN SubSeq(baseUrl, 3, Len(baseUrl)) ELSE <<>>]

\* a delete that removes only the first tuple named name
DeleteParamFirstOnly(list, name) ==
    IF \E k \in 1..Len(list) : list[k].name = name
    THEN LET k == CHOOSE k \in 1..Len(list) :
                     list[k].name = name /\ \A j \in 1..(k - 1) : list[j].name # name
         IN SubSeq(list, 1, k - 1) \o SubSeq(list, k + 1, Len(list))
    ELSE list

\* u.searchParams.delete(name): every tuple named name is removed
DeleteParam(list, name) == SelectSeq(list, LAMBDA tuple : tuple.name # name)

\* The update steps of searchParams: the list is serialized into the URL's
\* query, an empty serialization giving a null query.
UpdateQuery(u, list) ==
    [u EXCEPT !.hasQuery = SerializeQuery(list) # <<>>, !.query = SerializeQuery(list)]

\* u.toString()
UrlToString(u) == <<u.base>> \o (IF u.hasQuery THEN <<"?">> \o u.query ELSE <<>>)

\* const cleanBase = (() => { try { ... } catch { return baseUrl; } })()
cleanBase(baseUrl) ==
    LET u == ParseUrl(baseUrl)
    IN IF ~u.ok THEN baseUrl
       ELSE UrlToString(UpdateQuery(u, DeleteParam(ParseQuery(u.query), <<"exp">>)))

\* Bound of the locators: tokens in the query.
MaxQueryTokens == 4

LocatorBases == { AbsoluteBase, UpperCaseBase, RelativeBase }
QueryTokens == { "&", "=", "exp", "v", "+", "e%78p" }

RECURSIVE QueriesOfLen(_)
QueriesOfLen(n) ==
    IF n = 0 THEN { <<>> }
    ELSE { Append(q, t) : q \in QueriesOfLen(n - 1), t \in QueryTokens }

Locators ==
    { <<b>> : b \in LocatorBases }
    \cup { <<b, "?">> \o q :
             b \in LocatorBases, q \in UNION { QueriesOfLen(n) : n \in 0..MaxQueryTokens } }

LocatorInit ==
    /\ lBaseUrl \in Locators
    /\ lClean = <<>>
    /\ lAgain = <<>>
    /\ lPc = "input"
    /\ LocatorOthersIdle

\* fetchTranscriptData computes cleanBase from the track's baseUrl
StripExp ==
    /\ lPc = "input"
    /\ lClean' = cleanBase(lBaseUrl)
    /\ lPc' = "stripped"
    /\ UNCHANGED <<lBaseUrl, lAgain, locatorOthers>>

\* cleanBase computed from a locator that is itself a cleanBase
StripExpAgain ==
    /\ lPc = "stripped"
    /\ lAgain' = cleanBase(lClean)
    /\ lPc' = "restripped"
    /\ UNCHANGED <<lBaseUrl, lClean, locatorOthers>>

LocatorNext == StripExp \/ StripExpAgain

SpecLocator == LocatorInit /\ [][LocatorNext]_vars

\* The text after the first "?" of the locator holds a parameter named exp.
HasExpParam(locator) ==
    /\ Contains(locator, "?")
    /\ LET query == SubSeq(locator, FirstIndex(locator, "?") + 1, Len(locator))
       IN \E k \in 1..Len(ParseQuery(query)) : ParseQuery(query)[k].name = <<"exp">>

\* C16 as stated: stripping is idempotent and a stripped locator never holds
\* an exp parameter.
C16_StripIdempotentNoExp ==
    /\ lPc \in {"stripped", "restripped"} => ~HasExpParam(lClean)
    /\ lPc = "restripped" => lAgain = lClean

\* C16 amended: stripping is idempotent; a locator that parses as an absolute
\* URL is stripped of every exp parameter; one that does not is returned as
\* it is.
C16_StripIdempotent ==
    /\ lPc \in {"stripped", "restripped"} =>
          IF ParseUrl(lBaseUrl).ok THEN ~HasExpParam(lClean) ELSE lClean = lBaseUrl
    /\ lPc = "restripped" => lAgain = lClean

\* C16 witness: a locator with a percent-encoded exp parameter was stripped
\* to another locator, which was stripped again.
C16_Witness ==
    /\ lPc = "restripped"
    /\ lBaseUrl = <<AbsoluteBase, "?", "e%78p", "=", "&", "v">>
    /\ lClean = <<AbsoluteBase, "?", "v", "=">>
    /\ lAgain = lClean

----------------------------------------------------------------------------
(* Transcript fetch: fetchTranscript and fetchTranscriptData. One action    *)
(* per settled await; a message is a sequence of literal pieces and of the  *)
(* messages embedded in it. Cue times are whole seconds (milliseconds that  *)
(* are multiples of 1000).                                                  *)

\* new Error(message), and Object.assign(error, { diagnostics })
Error(message) == [message |-> message, diagnostics |-> Undefined]
WithDiagnostics(error, diag) == [error EXCEPT !.diagnostics = [steps |-> diag]]

\* What a call returned, or the error it threw.
Returned(value) == [threw |-> FALSE, value |-> value]
Threw(error) == [threw |-> TRUE, error |-> error]

\* diag.steps.push({ label, status, detail })
DiagStep(label, status, detail) == [label |-> label, status |-> status, detail |-> detail]

PageFetchLabel == "Page fetch caption tracks"
DomLabel == "DOM fallback caption tracks"
SelectLabel == "Select track"
GetTranscriptLabel == "get_transcript API"
StrippedLabel == "Stripped exp param"
Json3HttpLabel == "HTTP response (JSON3)"
Json3Label == "Fetch JSON3 transcript"
XmlHttpLabel == "HTTP response (XML)"
XmlLabel == "Fetch XML transcript"

\* The separator of the details, a dash between two spaces.
Dash == <<" - ">>

NoCaptionsText == <<"No captions found. This video may not have a transcript.">>
NoTracksText == <<"No caption tracks found in background fetch or DOM.">>

\* t.kind is a non-empty string
HasKind(t) == t.kind # Undefined /\ t.kind.pieces # <<>>

\* `${t.languageCode}${t.kind ? ` [${t.kind}]` : ""}`
TrackLabel(t) ==
    <<t.languageCode>> \o (IF HasKind(t) THEN <<" [">> \o t.kind.pieces \o <<"]">> ELSE <<>>)

\* labels.join(", ")
RECURSIVE JoinLabels(_)
JoinLabels(labels) ==
    IF labels = <<>> THEN <<>>
    ELSE IF Len(labels) = 1 THEN labels[1]
    ELSE labels[1] \o <<", ">> \o JoinLabels(Tail(labels))

\* The step pushed after a track strategy returned: ok with tracks, warn
\* with none.
TracksStep(label, tracks) ==
    IF Len(tracks) > 0
    THEN DiagStep(label, "ok",
                  <<"Found ">> \o Digits(Len(tracks)) \o <<" track(s): ">>
                  \o JoinLabels([i \in 1..Len(tracks) |-> TrackLabel(tracks[i])]))
    ELSE DiagStep(label, "warn", <<"Returned 0 tracks">>)

\* the catch of the page fetch recording its step as a warning
PageFetchErrorStepAsWarn(bgError) == DiagStep(PageFetchLabel, "warn", bgError)

\* the catch of the page fetch: status error, detail bgError
PageFetchErrorStep(bgError) == DiagStep(PageFetchLabel, "error", bgError)

\* readCaptionTracksFromDOM(): the tracks of the page's script tags, or the
\* error thrown when no script tag yields any
readCaptionTracksFromDOM(dom) ==
    IF Len(dom) > 0 THEN Returned(dom) ELSE Threw(Error(NoCaptionsText))

\* the DOM fallback run whatever the page fetch gave
ShouldReadDomAlways(tracks) == TRUE

\* if (tracks.length === 0)
ShouldReadDom(tracks) == Len(tracks) = 0

\* the aggregated message without its Background part
BackgroundPartOmitted(bgError) == <<>>

\* `Background: ${bgError ?? "n/a"}`
BackgroundPart(bgError) ==
    <<"Background: ">> \o (IF bgError = Null THEN <<"n/a">> ELSE bgError.pieces)

\* `Could not find any caption tracks.\nBackground: ...\nDOM: ${msg}`
AggregatedMessage(bgError, msg) ==
    <<"Could not find any caption tracks.", "\n">> \o BackgroundPart(bgError)
    \o <<"\n", "DOM: ">> \o msg

\* the selection taking the first track of the list
preferredTrackFirst(tracks) == tracks[1]

\* tracks.find(en && !kind) ?? tracks.find(en) ?? tracks[0]
preferredTrack(tracks) ==
    LET Find(P(_)) ==
            IF \E i \in 1..Len(tracks) : P(tracks[i])
            THEN tracks[CHOOSE i \in 1..Len(tracks) :
                            P(tracks[i]) /\ \A j \in 1..(i - 1) : ~P(tracks[j])]
            ELSE Undefined
        manualEnglish == Find(LAMBDA t : t.languageCode = "en" /\ ~HasKind(t))
        english == Find(LAMBDA t : t.languageCode = "en")
    IN IF manualEnglish # Undefined THEN manualEnglish
       ELSE IF english # Undefined THEN english
       ELSE tracks[1]

\* `Using "${name}" (lang=${languageCode}, kind=${kind ?? "manual"})`
SelectStep(track) ==
    DiagStep(SelectLabel, "ok",
             <<"Using \"">> \o track.name.simpleText \o <<"\" (lang=", track.languageCode,
               ", kind=">>
             \o (IF track.kind = Undefined THEN <<"manual">> ELSE track.kind.pieces)
             \o <<")">>)

\* Steps 1 to 3 of fetchTranscript once the page fetch has settled with
\* tracks (none if it threw) and bgError: the DOM fallback, the check for no
\* tracks and the selection. Gives the rejection, or the tracks, the selected
\* track and the steps.
ResolveTracks(tracks, bgError, diag, dom) ==
    LET read == readCaptionTracksFromDOM(dom)
        domThrew == ShouldReadDom(tracks) /\ read.threw
        tracks2 == IF ShouldReadDom(tracks) /\ ~read.threw THEN read.value ELSE tracks
        diag2 == IF ~ShouldReadDom(tracks) THEN diag
                 ELSE IF read.threw
                 THEN Append(diag, DiagStep(DomLabel, "error", read.error.message))
                 ELSE Append(diag, TracksStep(DomLabel, read.value))
    IN IF domThrew
       THEN [rejected |-> TRUE, diag |-> diag2, tracks |-> tracks,
             error |-> WithDiagnostics(
                           Error(AggregatedMessage(bgError, read.error.message)), diag2)]
       ELSE IF Len(tracks2) = 0
       THEN LET diag3 == Append(diag2, DiagStep(SelectLabel, "error",
                                                <<"No tracks available to select.">>))
            IN [rejected |-> TRUE, diag |-> diag3, tracks |-> tracks2,
                error |-> WithDiagnostics(Error(NoTracksText), diag3)]
       ELSE [rejected |-> FALSE, tracks |-> tracks2,
             preferred |-> preferredTrack(tracks2),
             diag |-> Append(diag2, SelectStep(preferredTrack(tracks2)))]

\* text.replace(/\n/g, " ")
ReplaceNewlines(s) == [i \in 1..Len(s) |-> IF s[i] = "\n" THEN " " ELSE s[i]]

\* parts.join("")
RECURSIVE Concat(_)
Concat(parts) == IF parts = <<>> THEN <<>> ELSE Head(parts) \o Concat(Tail(parts))

\* The cues of a get_transcript response: text trimmed, blank cues dropped,
\* milliseconds divided by 1000.
RECURSIVE GetTranscriptSegments(_)
GetTranscriptSegments(gtCues) ==
    IF gtCues = <<>> THEN <<>>
    ELSE LET cue == Head(gtCues)
             text == Trim(cue.simpleText)
         IN (IF text # <<>>
             THEN <<[text |-> text, start |-> cue.startOffsetMs \div 1000,
                     duration |-> cue.durationMs \div 1000]>>
             ELSE <<>>)
            \o GetTranscriptSegments(Tail(gtCues))

\* The events loop of the JSON3 attempt: events without segs skipped, text
\* joined, line breaks replaced, trimmed, blank events dropped.
RECURSIVE Json3Segments(_)
Json3Segments(events) ==
    IF events = <<>> THEN <<>>
    ELSE LET event == Head(events)
             text == IF event.segs = Undefined THEN <<>>
                     ELSE Trim(ReplaceNewlines(Concat(event.segs.items)))
         IN (IF text # <<>>
             THEN <<[text |-> text, start |-> event.tStartMs \div 1000,
                     duration |-> event.dDurationMs \div 1000]>>
             ELSE <<>>)
            \o Json3Segments(Tail(events))

InvalidJson == [type |-> "invalid"]

\* What the try block of the JSON3 attempt gives for a response body: the
\* segments returned, or the json3Status of the failure.
Json3Attempt(body) ==
    IF body.bytes = 0 THEN [ok |-> FALSE, json3Status |-> <<"empty body">>]
    ELSE IF body.data = InvalidJson
    THEN [ok |-> FALSE, json3Status |-> <<"Error: ", "Unexpected token">>]
    ELSE LET events == IF body.data.events = Undefined THEN <<>> ELSE body.data.events.items
             segments == Json3Segments(events)
         IN IF Len(segments) > 0
            THEN [ok |-> TRUE, segments |-> segments]
            ELSE [ok |-> FALSE,
                  json3Status |-> Digits(body.bytes) \o <<" bytes", " (0 events after filtering)">>]

\* The detail of an HTTP response step, without content-length and preview.
HttpStep(label, response) ==
    DiagStep(label, IF response.bytes > 0 THEN "ok" ELSE "error",
             <<"status=">> \o Digits(response.status) \o <<", body=">>
             \o Digits(response.bytes) \o <<" bytes">>)

\* the step after a failed JSON3 attempt recorded as an error
Json3FallbackStepAsError(json3Status) ==
    DiagStep(Json3Label, "error", json3Status \o Dash \o <<"falling back to XML">>)

\* { label: "Fetch JSON3 transcript", status: "warn", detail: json3Status + ... }
Json3FallbackStep(json3Status) ==
    DiagStep(Json3Label, "warn", json3Status \o Dash \o <<"falling back to XML">>)

\* s.replace(pattern, replacement) for a global pattern
RECURSIVE ReplaceAll(_, _, _)
ReplaceAll(s, pattern, replacement) ==
    IF Len(s) < Len(pattern) THEN s
    ELSE IF SubSeq(s, 1, Len(pattern)) = pattern
    THEN replacement \o ReplaceAll(SubSeq(s, Len(pattern) + 1, Len(s)), pattern, replacement)
    ELSE <<Head(s)>> \o ReplaceAll(Tail(s), pattern, replacement)

decodeXmlEntities(s) ==
    LET amp == ReplaceAll(s, <<"&", "a", "m", "p", ";">>, <<"&">>)
        lt == ReplaceAll(amp, <<"&", "l", "t", ";">>, <<"<">>)
        gt == ReplaceAll(lt, <<"&", "g", "t", ";">>, <<">">>)
        apos == ReplaceAll(gt, <<"&", "#", "3", "9", ";">>, <<"'">>)
        quot == ReplaceAll(apos, <<"&", "q", "u", "o", "t", ";">>, <<"\"">>)
    IN Trim(ReplaceNewlines(quot))

\* parseFloat of a string of digits
RECURSIVE ParseDigits(_)
ParseDigits(digits) ==
    IF digits = <<>> THEN 0
    ELSE 10 * ParseDigits(SubSeq(digits, 1, Len(digits) - 1))
         + (CHOOSE d \in 0..9 : Digit(d) = digits[Len(digits)])

\* parseFloat(node.getAttribute(name) ?? "0")
AttributeNumber(attribute) ==
    IF attribute = Undefined THEN 0 ELSE ParseDigits(attribute.pieces)

\* Format B: one segment per <p> with text, times in milliseconds
RECURSIVE FormatBSegments(_)
FormatBSegments(pNodes) ==
    IF pNodes = <<>> THEN <<>>
    ELSE LET node == Head(pNodes)
             raw == IF Len(node.s) > 0 THEN Concat(node.s) ELSE node.textContent
             text == decodeXmlEntities(raw)
         IN (IF text # <<>>
             THEN <<[text |-> text, start |-> AttributeNumber(node.t) \div 1000,
                     duration |-> AttributeNumber(node.d) \div 1000]>>
             ELSE <<>>)
            \o FormatBSegments(Tail(pNodes))

\* Format A: one segment per <text> with text, times in seconds
RECURSIVE FormatASegments(_)
FormatASegments(textNodes) ==
    IF textNodes = <<>> THEN <<>>
    ELSE LET node == Head(textNodes)
             text == decodeXmlEntities(node.textContent)
         IN (IF text # <<>>
             THEN <<[text |-> text, start |-> AttributeNumber(node.start),
                     duration |-> AttributeNumber(node.dur)]>>
             ELSE <<>>)
            \o FormatASegments(Tail(textNodes))

\* parseXmlTranscript(xml): doc is the parsed document of the body
parseXmlTranscript(xml) ==
    LET formatB == FormatBSegments(xml.doc.pNodes)
        formatA == FormatASegments(xml.doc.textNodes)
    IN IF Len(xml.doc.pNodes) > 0 /\ Len(formatB) > 0 THEN Returned(formatB)
       ELSE IF Len(formatA) = 0
       THEN Threw(Error(<<"XML parsed but yielded 0 segments. XML snippet: ">> \o xml.snippet))
       ELSE Returned(formatA)

\* the catch around fetchTranscriptData rethrowing the error as it is
RethrowBare(error, diag) == error

\* throw Object.assign(new Error(msg), { diagnostics: diag })
RethrowWithDiagnostics(error, diag) == WithDiagnostics(Error(error.message), diag)

\* Bound of the fetch inputs: caption tracks returned by the page fetch.
MaxTracks == 3

AsrKind == JsString(<<"a", "s", "r">>)

\* Track i of a list: the first with an exp parameter in its locator, the
\* last with a locator that is no absolute URL.
TrackAt(i, languageCode, kind) ==
    [baseUrl |-> IF i = 1 THEN <<AbsoluteBase, "?", "v", "=", "&", "exp", "=">>
                 ELSE IF i = 2 THEN <<AbsoluteBase, "?", "v", "=">>
                 ELSE <<RelativeBase, "?", "v", "=">>,
     name |-> [simpleText |-> <<"Track ">> \o Digits(i)],
     languageCode |-> languageCode, kind |-> kind]

RECURSIVE TrackListsOfLen(_)
TrackListsOfLen(n) ==
    IF n = 0 THEN { <<>> }
    ELSE { Append(l, TrackAt(n, lang, kind)) :
             l \in TrackListsOfLen(n - 1), lang \in {"en", "fr"}, kind \in {Undefined, AsrKind} }

TrackLists == UNION { TrackListsOfLen(n) : n \in 0..MaxTracks }

DomTrackLists ==
    { <<>>, <<TrackAt(1, "fr", AsrKind)>>, <<TrackAt(1, "en", AsrKind), TrackAt(2, "en", Undefined)>> }

PageFetchErrors == { JsString(<<"Innertube player returned 403">>), JsString(<<"Failed to fetch">>) }

GtCue(text, startOffsetMs) ==
    [simpleText |-> text, startOffsetMs |-> startOffsetMs, durationMs |-> 2000]

\* get_transcript responses: ok with cues, ok with blank cues only, not ok
GetTranscriptResponses ==
    { [ok |-> TRUE, status |-> 200,
       cues |-> <<GtCue(<<" ", "h", "i">>, 0), GtCue(<<" ">>, 2000), GtCue(<<"y", "o">>, 4000)>>],
      [ok |-> TRUE, status |-> 200, cues |-> <<GtCue(<<" ">>, 0)>>],
      [ok |-> FALSE, status |-> 400, cues |-> <<>>] }

Json3Event(segs, tStartMs) == [segs |-> segs, tStartMs |-> tStartMs, dDurationMs |-> 2000]

\* JSON3 responses: empty body, malformed JSON, no events key, events that
\* are all dropped, events with text
Json3Responses ==
    { [status |-> 200, bytes |-> 0],
      [status |-> 200, bytes |-> 9, data |-> InvalidJson],
      [status |-> 200, bytes |-> 2, data |-> [events |-> Undefined]],
      [status |-> 200, bytes |-> 40,
       data |-> [events |-> JsArray(<<Json3Event(Undefined, 0),
                                      Json3Event(JsArray(<<<<"\n">>, <<" ">>>>), 2000)>>)]],
      [status |-> 200, bytes |-> 60,
       data |-> [events |-> JsArray(<<Json3Event(JsArray(<<<<"h", "i">>, <<"\n">>, <<"y", "o">>>>), 0),
                                      Json3Event(Undefined, 2000),
                                      Json3Event(JsArray(<<<<"o", "k", " ">>>>), 4000)>>)]] }

NumberAttribute(n) == JsString(Digits(n))

PNode(t, s, textContent) ==
    [t |-> t, d |-> NumberAttribute(2000), s |-> s, textContent |-> textContent]

TextNode(start, textContent) ==
    [start |-> start, dur |-> NumberAttribute(2), textContent |-> textContent]

\* XML responses: empty body, format B with a <p> without t, format B with
\* blank <p> only over format A, format A with entities, blank format A
XmlResponses ==
    { [status |-> 200, bytes |-> 0, snippet |-> <<>>,
       doc |-> [pNodes |-> <<>>, textNodes |-> <<>>]],
      [status |-> 200, bytes |-> 60, snippet |-> <<"<timedtext>">>,
       doc |-> [pNodes |-> <<PNode(NumberAttribute(1000), <<<<"O", "k">>, <<" ", "s", "o">>>>, <<>>),
                             PNode(Undefined, <<>>, <<"h", "i", "\n">>),
                             PNode(NumberAttribute(5000), <<>>, <<" ">>)>>,
                textNodes |-> <<>>]],
      [status |-> 200, bytes |-> 50, snippet |-> <<"<timedtext>">>,
       doc |-> [pNodes |-> <<PNode(NumberAttribute(0), <<>>, <<" ">>)>>,
                textNodes |-> <<TextNode(NumberAttribute(3), <<"h", "i">>)>>]],
      [status |-> 200, bytes |-> 70, snippet |-> <<"<transcript>">>,
       doc |-> [pNodes |-> <<>>,
                textNodes |-> <<TextNode(NumberAttribute(0),
                                         <<"a", "&", "a", "m", "p", ";", "l", "t", ";", "b">>),
                                TextNode(Undefined, <<"\n">>),
                                TextNode(NumberAttribute(12), <<"&", "#", "3", "9", ";">>)>>]],
      [status |-> 404, bytes |-> 30, snippet |-> <<"<html>">>,
       doc |-> [pNodes |-> <<>>, textNodes |-> <<TextNode(Undefined, <<" ">>)>>]] }

NetworkErrors == { JsString(<<"Failed to fetch">>) }

FetchInit ==
    /\ fPc = "idle"
    /\ fDom \in DomTrackLists
    /\ fTracks = <<>>
    /\ fBgError = Null
    /\ fDiag = <<>>
    /\ fPreferred = Undefined
    /\ fCleanBase = Undefined
    /\ fOutcome = Undefined
    /\ FetchOthersIdle

\* fetchTranscript(videoId) up to await getCaptionTracksViaPageFetch(videoId)
FetchTranscript ==
    /\ fPc = "idle"
    /\ fPc' = "pageFetch"
    /\ UNCHANGED <<fDom, fTracks, fBgError, fDiag, fPreferred, fCleanBase, fOutcome,
                   fetchOthers>>

\* Steps 2 and 3 after the page fetch settled, up to the get_transcript fetch
AfterPageFetch(tracks, bgError, diag) ==
    LET r == ResolveTracks(tracks, bgError, diag, fDom)
    IN /\ fBgError' = bgError
       /\ fTracks' = r.tracks
       /\ fDiag' = r.diag
       /\ IF r.rejected
          THEN fPc' = "rejected" /\ fOutcome' = r.error /\ fPreferred' = fPreferred
          ELSE fPc' = "getTranscript" /\ fOutcome' = fOutcome /\ fPreferred' = r.preferred
       /\ UNCHANGED <<fDom, fCleanBase, fetchOthers>>

\* getCaptionTracksViaPageFetch resolves with the track list of the response
PageFetchResolve ==
    /\ fPc = "pageFetch"
    /\ \E tracks \in TrackLists :
          AfterPageFetch(tracks, Null, Append(fDiag, TracksStep(PageFetchLabel, tracks)))

\* getCaptionTracksViaPageFetch rejects (network error, status not ok)
PageFetchReject ==
    /\ fPc = "pageFetch"
    /\ \E err \in PageFetchErrors :
          AfterPageFetch(<<>>, err, Append(fDiag, PageFetchErrorStep(err.pieces)))

\* fetchTranscriptData up to the JSON3 fetch: cleanBase and its step
StartTranscriptData(diag) ==
    LET clean == cleanBase(fPreferred.baseUrl)
    IN /\ fCleanBase' = clean
       /\ fDiag' = IF fPreferred.baseUrl # clean
                   THEN Append(diag, DiagStep(StrippedLabel, "ok",
                          <<"Removed exp=xpe from timedtext URL to disable POT enforcement.">>))
                   ELSE diag
       /\ fPc' = "json3"

\* The get_transcript fetch resolves: its cues are returned, or a warn step
\* is pushed and fetchTranscriptData starts.
GetTranscriptResolve ==
    /\ fPc = "getTranscript"
    /\ \E res \in GetTranscriptResponses :
          LET gtSegments == IF res.ok THEN GetTranscriptSegments(res.cues) ELSE <<>>
          IN IF Len(gtSegments) > 0
             THEN LET diag == Append(fDiag, DiagStep(GetTranscriptLabel, "ok",
                                       Digits(Len(gtSegments))
                                       \o <<" cues via Innertube get_transcript">>))
                  IN /\ fDiag' = diag
                     /\ fPc' = "resolved"
                     /\ fOutcome' = [segments |-> gtSegments, tracksLen |-> Len(fTracks),
                                     diagnostics |-> [steps |-> diag]]
                     /\ fCleanBase' = fCleanBase
             ELSE /\ StartTranscriptData(
                        Append(fDiag, DiagStep(GetTranscriptLabel, "warn",
                                 <<"status=">> \o Digits(res.status)
                                 \o <<", no cues">> \o Dash \o <<"falling back to timedtext">>)))
                  /\ fOutcome' = fOutcome
    /\ UNCHANGED <<fDom, fTracks, fBgError, fPreferred, fetchOthers>>

\* The get_transcript fetch rejects: a warn step, then fetchTranscriptData
GetTranscriptReject ==
    /\ fPc = "getTranscript"
    /\ \E err \in NetworkErrors :
          StartTranscriptData(
              Append(fDiag, DiagStep(GetTranscriptLabel, "warn",
                       <<"Error: ">> \o err.pieces \o Dash \o <<"falling back to timedtext">>)))
    /\ UNCHANGED <<fDom, fTracks, fBgError, fPreferred, fOutcome, fetchOthers>>

\* The JSON3 fetch resolves with a body: its segments are returned, or the
\* warn step is pushed and the XML fetch starts.
Json3Resolve ==
    /\ fPc = "json3"
    /\ \E res \in Json3Responses :
          LET diag == Append(fDiag, HttpStep(Json3HttpLabel, res))
              attempt == Json3Attempt(res)
          IN IF attempt.ok
             THEN LET diag2 == Append(diag, DiagStep(Json3Label, "ok",
                                        Digits(Len(attempt.segments)) \o <<" events, ">>
                                        \o Digits(res.bytes) \o <<" bytes">>))
                  IN /\ fDiag' = diag2
                     /\ fPc' = "resolved"
                     /\ fOutcome' = [segments |-> attempt.segments,
                                     tracksLen |-> Len(fTracks), diagnostics |-> [steps |-> diag2]]
             ELSE /\ fDiag' = Append(diag, Json3FallbackStep(attempt.json3Status))
                  /\ fPc' = "xml"
                  /\ fOutcome' = fOutcome
    /\ UNCHANGED <<fDom, fTracks, fBgError, fPreferred, fCleanBase, fetchOthers>>

\* The JSON3 fetch or the read of its body rejects: the warn step, then the
\* XML fetch
Json3Reject ==
    /\ fPc = "json3"
    /\ \E err \in NetworkErrors :
          fDiag' = Append(fDiag, Json3FallbackStep(<<"Error: ">> \o err.pieces))
    /\ fPc' = "xml"
    /\ UNCHANGED <<fDom, fTracks, fBgError, fPreferred, fCleanBase, fOutcome, fetchOthers>>

\* the catch of the XML attempt without its diag.steps.push
XmlFailureUnrecorded(diag, xmlStatus, msg) ==
    /\ fDiag' = diag
    /\ fPc' = "rejected"
    /\ fOutcome' = RethrowWithDiagnostics(Error(msg), diag)

\* The XML attempt failed with msg: its error step, the throw of
\* fetchTranscriptData and the catch of fetchTranscript
XmlFailure(diag, xmlStatus, msg) ==
    LET diag2 == Append(diag, DiagStep(XmlLabel, "error", xmlStatus \o Dash \o msg))
    IN /\ fDiag' = diag2
       /\ fPc' = "rejected"
       /\ fOutcome' = RethrowWithDiagnostics(Error(msg), diag2)

\* The XML fetch resolves with a body: parseXmlTranscript returns the
\* segments or throws.
XmlResolve ==
    /\ fPc = "xml"
    /\ \E res \in XmlResponses :
          LET diag == Append(fDiag, HttpStep(XmlHttpLabel, res))
              xmlStatus == Digits(res.bytes) \o <<" bytes">>
              parsed == parseXmlTranscript(res)
          IN IF parsed.threw
             THEN XmlFailure(diag, xmlStatus, parsed.error.message)
             ELSE LET diag2 == Append(diag, DiagStep(XmlLabel, "ok",
                                        Digits(Len(parsed.value)) \o <<" segments, ">>
                                        \o xmlStatus))
                  IN /\ fDiag' = diag2
                     /\ fPc' = "resolved"
                     /\ fOutcome' = [segments |-> parsed.value, tracksLen |-> Len(fTracks),
                                     diagnostics |-> [steps |-> diag2]]
    /\ UNCHANGED <<fDom, fTracks, fBgError, fPreferred, fCleanBase, fetchOthers>>

\* The XML fetch or the read of its body rejects.
XmlReject ==
    /\ fPc = "xml"
    /\ \E err \in NetworkErrors : XmlFailure(fDiag, <<"skipped">>, err.pieces)
    /\ UNCHANGED <<fDom, fTracks, fBgError, fPreferred, fCleanBase, fetchOthers>>

FetchNext ==
    \/ FetchTranscript
    \/ PageFetchResolve
    \/ PageFetchReject
    \/ GetTranscriptResolve
    \/ GetTranscriptReject
    \/ Json3Resolve
    \/ Json3Reject
    \/ XmlResolve
    \/ XmlReject

SpecFetch == FetchInit /\ [][FetchNext]_vars

\* The number of steps of diag with status error.
ErrorSteps(diag) == Cardinality({ i \in 1..Len(diag) : diag[i].status = "error" })

HasStep(diag, label) == \E i \in 1..Len(diag) : diag[i].label = label

\* fetchTranscript rejected before a track was selected.
RejectedAtTracks == fPc = "rejected" /\ fPreferred = Undefined

\* The page fetch returned at least one track.
PageFetchOk == fDiag[1].label = PageFetchLabel /\ fDiag[1].status = "ok"

\* C11: when the page fetch threw and the page's script tags hold no track,
\* fetchTranscript has rejected with a message that holds both error
\* messages, and its diagnostics hold at least 2 error steps.
C11_BothStrategiesThrow ==
    (fBgError # Null /\ fDom = <<>>) =>
        /\ fPc = "rejected"
        /\ Includes(fOutcome.message, fBgError.pieces)
        /\ Includes(fOutcome.message, NoCaptionsText)
        /\ fOutcome.diagnostics # Undefined
        /\ ErrorSteps(fOutcome.diagnostics.steps) >= 2

\* C11 witness: the page fetch failed with status 403, no script tag held a
\* track, and fetchTranscript rejected after two steps.
C11_Witness ==
    /\ fPc = "rejected"
    /\ fBgError = JsString(<<"Innertube player returned 403">>)
    /\ fDom = <<>>
    /\ Len(fDiag) = 2

\* C12: a JSON3 attempt that settles either returns segments or pushes a
\* warn step and starts the XML attempt; fetchTranscript rejects only from
\* track resolution or from the XML attempt.
C12_Json3FailureFallsBack ==
    [][/\ fPc = "json3" =>
            \/ /\ fPc' = "resolved"
               /\ Len(fOutcome'.segments) > 0
            \/ /\ fPc' = "xml"
               /\ fOutcome' = Undefined
               /\ fDiag'[Len(fDiag')].label = Json3Label
               /\ fDiag'[Len(fDiag')].status = "warn"
       /\ (fPc' = "rejected" /\ fPc # "rejected") => fPc \in {"pageFetch", "xml"}]_vars

\* C12 witness: the JSON3 body was empty, the warn step was pushed and the
\* XML attempt is under way.
C12_Witness ==
    /\ fPc = "xml"
    /\ Len(fDiag) >= 2
    /\ fDiag[Len(fDiag)] = Json3FallbackStep(<<"empty body">>)
    /\ fDiag[Len(fDiag) - 1].label = Json3HttpLabel
    /\ fDiag[Len(fDiag) - 1].status = "error"

\* C13: a rejection of fetchTranscript carries the diagnostics with every
\* step recorded, at least one of them an error step.
C13_RejectionCarriesDiagnostics ==
    fPc = "rejected" =>
        /\ fOutcome.diagnostics # Undefined
        /\ fOutcome.diagnostics.steps = fDiag
        /\ ErrorSteps(fDiag) >= 1

\* C13 witness: the XML attempt failed after a track was selected.
C13_Witness ==
    /\ fPc = "rejected"
    /\ fPreferred # Undefined
    /\ fDiag[Len(fDiag)].label = XmlLabel
    /\ HasStep(fDiag, Json3Label)

\* C14: once the page fetch has settled, the DOM fallback has run exactly if
\* the page fetch gave no track; track resolution fails only when the
\* script tags hold no track either, and else the tracks are those of the
\* strategy that gave some.
C14_DomOnlyAfterZeroTracks ==
    fPc \notin {"off", "idle", "pageFetch"} =>
        /\ HasStep(fDiag, DomLabel) <=> ~PageFetchOk
        /\ PageFetchOk => (Len(fTracks) > 0 /\ ~RejectedAtTracks)
        /\ RejectedAtTracks <=> (~PageFetchOk /\ fDom = <<>>)
        /\ (~PageFetchOk /\ fDom # <<>>) => fTracks = fDom

\* C14 witness: the page fetch threw, the script tags held tracks, and one
\* of them was selected.
C14_Witness ==
    /\ fPc = "getTranscript"
    /\ fBgError # Null
    /\ HasStep(fDiag, DomLabel)
    /\ Len(fDom) >= 2
    /\ fPreferred = fDom[2]

\* C15 as stated: when both strategies give no track the message embeds the
\* failure detail of the page fetch step and the message of the DOM error,
\* and the error carries the diagnostics.
C15_EmbedsBothFailures ==
    RejectedAtTracks =>
        /\ Includes(fOutcome.message, fDiag[1].detail)
        /\ Includes(fOutcome.message, NoCaptionsText)
        /\ fOutcome.diagnostics # Undefined
        /\ fOutcome.diagnostics.steps = fDiag

\* C15 amended: the message embeds the message of the DOM error and, for the
\* page fetch, its error message if it threw and the placeholder n/a if it
\* returned an empty list; the error carries the diagnostics.
C15_AggregatedError ==
    RejectedAtTracks =>
        /\ Includes(fOutcome.message,
                    IF fBgError = Null THEN <<"Background: ", "n/a">>
                    ELSE <<"Background: ">> \o fBgError.pieces)
        /\ fBgError = Null => ~Includes(fOutcome.message, fDiag[1].detail)
        /\ Includes(fOutcome.message, <<"DOM: ">> \o NoCaptionsText)
        /\ fOutcome.diagnostics # Undefined
        /\ fOutcome.diagnostics.steps = fDiag
        /\ Len(fDiag) = 2

\* C15 witness: the page fetch returned an empty list, no script tag held a
\* track, and fetchTranscript rejected.
C15_Witness ==
    /\ RejectedAtTracks
    /\ fBgError = Null
    /\ fDiag[1] = DiagStep(PageFetchLabel, "warn", <<"Returned 0 tracks">>)
    /\ fDiag[2].status = "error"

IsEnglish(t) == t.languageCode = "en"
IsManualEnglish(t) == t.languageCode = "en" /\ t.kind = Undefined

\* C19: a track is selected whenever the list is not empty: the first manual
\* English track, else the first English track, else the first track.
C19_TrackSelection ==
    /\ (fPc \in {"getTranscript", "json3", "xml", "resolved"} \/ Len(fTracks) > 0) =>
          fPreferred # Undefined
    /\ fPreferred # Undefined =>
          \E i \in 1..Len(fTracks) :
              /\ fTracks[i] = fPreferred
              /\ IF \E j \in 1..Len(fTracks) : IsManualEnglish(fTracks[j])
                 THEN /\ IsManualEnglish(fTracks[i])
                      /\ \A j \in 1..(i - 1) : ~IsManualEnglish(fTracks[j])
                 ELSE IF \E j \in 1..Len(fTracks) : IsEnglish(fTracks[j])
                 THEN /\ IsEnglish(fTracks[i])
                      /\ \A j \in 1..(i - 1) : ~IsEnglish(fTracks[j])
                 ELSE i = 1

\* C19 witness: of a French track, an English track of kind asr and a manual
\* English track, the third was selected.
C19_Witness ==
    /\ Len(fTracks) = 3
    /\ fTracks[1].languageCode = "fr"
    /\ fTracks[2].languageCode = "en" /\ fTracks[2].kind = AsrKind
    /\ IsManualEnglish(fTracks[3])
    /\ fPreferred = fTracks[3]

----------------------------------------------------------------------------
(* Panel of the content script: mountApp, cleanup, the yt-navigate-finish   *)
(* listener (content/index.tsx) and Panel with loadTranscript and the       *)
(* effect that keeps the segment store in sync. React drops a state update  *)
(* of a component that is no longer mounted.                                *)

\* Bound: Panel instances mounted in one session of the content script.
MaxPanels == 2

Videos == { "v1", "v2" }

\* A location without a v parameter, and the locations of the content script.
NoVideoPage == "none"
Pages == Videos \cup { NoVideoPage }

\* chunkTranscript(segments) of the transcript fetched for a video
VideoChunks(videoId) ==
    IF videoId = "v1"
    THEN << [text |-> <<"a">>, start |-> 0, duration |-> 30],
            [text |-> <<"a", "b">>, start |-> 30, duration |-> 30] >>
    ELSE << [text |-> <<"c">>, start |-> 0, duration |-> 40] >>

\* response.embedding of EMBED_TEXT for a chunk text
EmbeddingOf(text) == IF text[1] = "a" THEN <<1, 0>> ELSE <<0, 1>>

\* embedded.push({ ...seg, embedding, index: i })
EmbeddedChunk(seg, embedding, i) ==
    [text |-> seg.text, start |-> seg.start, duration |-> seg.duration,
     embedding |-> embedding, index |-> i]

\* embeddedSegments.length > 0 ? embeddedSegments
\*   : rawSegments.map((s, i) => ({ ...s, embedding: [], index: i }))
embeddedOrRaw(embedded, raw) ==
    IF Len(embedded) > 0 THEN embedded
    ELSE [i \in 1..Len(raw) |-> EmbeddedChunk(raw[i], <<>>, i - 1)]

\* semanticEnabled of TranscriptTab
semanticEnabled == semanticSearchEnabled /\ Len(embeddedSegments) > 0

NoLoad == [pc |-> "none", videoId |-> "none", chunks |-> <<>>, embedded |-> <<>>,
           failed |-> FALSE, stale |-> FALSE]

\* a state setter reaching whatever Panel is mounted
MountedAlways(i) == inst # 0

\* The Panel instance i is the one reactRoot renders: its state setters act.
Mounted(i) == i = inst

\* The variables of a chat turn and of the other components.
turnVars == <<bgPc, tabId, step, toolSteps, toolCalls, toolOutcome, fullText, tabEvents>>
requestVars == <<reqPc, reqQuery, reqSegments, reqResponse>>
panelRest == <<chunkVars, searchVars, groupVars, locatorVars, fetchVars, viewVars,
               timelineVars, transcriptVars, auxVars>>

PanelInit ==
    /\ page \in Pages
    /\ inst = 0
    /\ semanticSearchEnabled \in BOOLEAN
    /\ open = FALSE
    /\ loadState = "idle"
    /\ rawSegments = <<>>
    /\ embeddedSegments = <<>>
    /\ loads = <<>>
    /\ store = <<>>
    /\ bgPc = "off"
    /\ tabId = "tab"
    /\ step = 0
    /\ toolSteps = {}
    /\ toolCalls = 0
    /\ toolOutcome = NoOutcome
    /\ fullText = 0
    /\ tabEvents = <<>>
    /\ reqPc = "none"
    /\ reqQuery = <<>>
    /\ reqSegments = <<>>
    /\ reqResponse = Undefined
    /\ ChunkIdle /\ SearchIdle /\ GroupIdle /\ LocatorIdle /\ FetchIdle /\ ViewIdle
    /\ TimelineIdle /\ TranscriptIdle /\ AuxIdle

\* mountApp: reactRoot.render(<Panel />); the first render runs the effect
\* setSegments(embeddedOrRaw) with both lists empty.
MountApp ==
    /\ inst = 0
    /\ Len(loads) < MaxPanels
    /\ inst' = Len(loads) + 1
    /\ loads' = Append(loads, NoLoad)
    /\ open' = FALSE
    /\ loadState' = "idle"
    /\ rawSegments' = <<>>
    /\ embeddedSegments' = <<>>
    /\ store' = embeddedOrRaw(<<>>, <<>>)
    /\ UNCHANGED <<page, semanticSearchEnabled, turnVars, requestVars, panelRest>>

\* the effect on [open] without the test of loadState
ShouldLoadWhenOpen(isOpen, state) == isOpen

\* if (!open || loadState !== "idle") return
ShouldLoad(isOpen, state) == isOpen /\ state = "idle"

\* extractVideoId(window.location.href) is not null
HasVideoId(url) == url \in Videos

\* The trigger's onClick, setOpen((v) => !v), and the effect on [open]: without
\* a video id setErrorMsg and setLoadState("error"), else
\* loadTranscript(videoId) up to await fetchTranscript(videoId).
TogglePanel ==
    /\ inst # 0
    /\ open' = ~open
    /\ IF ShouldLoad(~open, loadState)
       THEN IF HasVideoId(page)
            THEN /\ loadState' = "fetching"
                 /\ loads' = [loads EXCEPT ![inst] =
                                 [NoLoad EXCEPT !.pc = "fetching", !.videoId = page]]
            ELSE /\ loadState' = "error"
                 /\ loads' = loads
       ELSE UNCHANGED <<loadState, loads>>
    /\ store' = embeddedOrRaw(embeddedSegments, rawSegments)
    /\ UNCHANGED <<page, inst, semanticSearchEnabled, rawSegments, embeddedSegments,
                   turnVars, requestVars, panelRest>>

\* What a continuation of loadTranscript of instance i leaves of the Panel
\* state, and the effect setSegments(embeddedOrRaw) after its render.
SetPanelState(i, newLoadState, newRaw, newEmbedded) ==
    IF Mounted(i)
    THEN /\ loadState' = newLoadState
         /\ rawSegments' = newRaw
         /\ embeddedSegments' = newEmbedded
         /\ store' = embeddedOrRaw(newEmbedded, newRaw)
    ELSE UNCHANGED <<loadState, rawSegments, embeddedSegments, store>>

\* fetchTranscript resolves: chunkTranscript, setRawSegments(chunks), then
\* setLoadState("embedding") and the first embedText, or setLoadState("ready").
LoadFetchResolve(i) ==
    /\ loads[i].pc = "fetching"
    /\ LET newChunks == VideoChunks(loads[i].videoId)
       IN /\ loads' = [loads EXCEPT ![i].chunks = newChunks,
                                    ![i].pc = IF semanticSearchEnabled
                                              THEN "embedding" ELSE "done",
                                    ![i].stale = ~Mounted(i)]
          /\ SetPanelState(i, IF semanticSearchEnabled THEN "embedding" ELSE "ready",
                           newChunks, embeddedSegments)
    /\ UNCHANGED <<page, inst, semanticSearchEnabled, open, turnVars, requestVars, panelRest>>

\* fetchTranscript rejects: setErrorMsg, setLoadState("error").
LoadFetchReject(i) ==
    /\ loads[i].pc = "fetching"
    /\ loads' = [loads EXCEPT ![i].pc = "done", ![i].stale = ~Mounted(i)]
    /\ SetPanelState(i, "error", rawSegments, embeddedSegments)
    /\ UNCHANGED <<page, inst, semanticSearchEnabled, open, turnVars, requestVars, panelRest>>

\* embedText(seg.text) resolves in embedSegments: embedded.push; after the
\* last chunk setEmbeddedSegments(embedded) and setLoadState("ready").
LoadEmbedResolve(i) ==
    /\ loads[i].pc = "embedding"
    /\ LET k == Len(loads[i].embedded) + 1
           seg == loads[i].chunks[k]
           embedded == Append(loads[i].embedded,
                              EmbeddedChunk(seg, EmbeddingOf(seg.text), k - 1))
       IN IF k < Len(loads[i].chunks)
          THEN /\ loads' = [loads EXCEPT ![i].embedded = embedded,
                                         ![i].stale = ~Mounted(i)]
               /\ SetPanelState(i, loadState, rawSegments, embeddedSegments)
          ELSE /\ loads' = [loads EXCEPT ![i].embedded = embedded, ![i].pc = "done",
                                         ![i].stale = ~Mounted(i)]
               /\ SetPanelState(i, "ready", rawSegments, embedded)
    /\ UNCHANGED <<page, inst, semanticSearchEnabled, open, turnVars, requestVars, panelRest>>

\* the embedding error reaching the outer catch of loadTranscript
LoadStateAfterEmbedErrorOuter == "error"

\* the inner catch of loadTranscript falls through to setLoadState("ready")
LoadStateAfterEmbedError == "ready"

\* embedText rejects: embedSegments throws, the inner catch warns, and
\* setLoadState("ready") runs with embeddedSegments left as it was.
LoadEmbedReject(i) ==
    /\ loads[i].pc = "embedding"
    /\ loads' = [loads EXCEPT ![i].embedded = <<>>, ![i].pc = "done",
                              ![i].failed = TRUE, ![i].stale = ~Mounted(i)]
    /\ SetPanelState(i, LoadStateAfterEmbedError, rawSegments, embeddedSegments)
    /\ UNCHANGED <<page, inst, semanticSearchEnabled, open, turnVars, requestVars, panelRest>>

\* yt-navigate-finish: cleanup() unmounts the Panel; the location is the
\* next video's.
NavigateFinish ==
    /\ \E v \in Pages : page' = v
    /\ inst' = 0
    /\ open' = FALSE
    /\ loadState' = "idle"
    /\ rawSegments' = <<>>
    /\ embeddedSegments' = <<>>
    /\ UNCHANGED <<store, loads, semanticSearchEnabled, turnVars, requestVars, panelRest>>

\* The background worker sends SEARCH_REQUEST to the tab.
SearchRequestSend ==
    /\ reqPc \in {"none", "responded"}
    /\ \E q \in ChatQueries : reqQuery' = q
    /\ reqPc' = "sent"
    /\ reqResponse' = Undefined
    /\ UNCHANGED <<store, reqSegments, turnVars, panelVars, panelRest>>

PanelNext ==
    \/ MountApp
    \/ TogglePanel
    \/ \E i \in 1..Len(loads) : LoadFetchResolve(i)
    \/ \E i \in 1..Len(loads) : LoadFetchReject(i)
    \/ \E i \in 1..Len(loads) : LoadEmbedResolve(i)
    \/ \E i \in 1..Len(loads) : LoadEmbedReject(i)
    \/ NavigateFinish
    \/ SearchRequestSend
    \/ ContentSearchRequest
    \/ ContentEmbedResolve
    \/ ContentEmbedReject

SpecPanel == PanelInit /\ [][PanelNext]_vars

\* The answers the SEARCH_REQUEST listener can give for a query over one
\* chunk list.
AnswersFrom(query, segments) ==
    { Response(NoTranscriptText), ExactResponse(query, segments) }
        \cup { HybridResponse(query, segments, qe) : qe \in ChatQueryVecs }

\* C21: a SEARCH_REQUEST works on the chunk list the store held when the
\* request was received: the list is captured on receipt, it stays as it is
\* while the embedding call is pending, and the response, the exact-search
\* fallback included, is an answer computed from that list alone.
C21_SnapshotAnswers ==
    [][/\ (reqPc = "sent" /\ reqPc' # "sent") => reqSegments' = store
       /\ reqPc = "embedding" => reqSegments' = reqSegments
       /\ (reqPc = "sent" /\ reqPc' = "responded") =>
             reqResponse' \in AnswersFrom(reqQuery, store)
       /\ (reqPc = "embedding" /\ reqPc' = "responded") =>
             reqResponse' \in AnswersFrom(reqQuery, reqSegments)]_vars

\* C21 witness: the request was answered with the exact-search fallback over
\* the embedded chunks it captured, and the store holds another list, over
\* which no answer is the one given.
C21_Witness ==
    /\ reqPc = "responded"
    /\ SomeEmbedding(reqSegments)
    /\ store # reqSegments
    /\ reqResponse = ExactResponse(reqQuery, reqSegments)
    /\ reqResponse \notin AnswersFrom(reqQuery, store)

\* C22: a continuation of loadTranscript that runs after its Panel was
\* unmounted changes neither the segment store nor the state of the Panel
\* that is mounted, and a mounted Panel holds no chunks but those of its own
\* load.
C22_LateResultsDiscarded ==
    [][/\ \A i \in 1..Len(loads) :
             (i # inst /\ loads'[i] # loads[i]) =>
                 UNCHANGED <<store, inst, open, loadState, rawSegments, embeddedSegments>>
       /\ inst' # 0 =>
             /\ rawSegments' \in {<<>>, loads'[inst'].chunks}
             /\ embeddedSegments' \in {<<>>, loads'[inst'].embedded}]_vars

\* C22 witness: the load of the first Panel ended with chunks after the
\* navigation to another video, and the Panel mounted for that video and the
\* store hold nothing.
C22_Witness ==
    /\ inst = 2
    /\ loads[1].pc = "done"
    /\ loads[1].stale
    /\ loads[1].embedded # <<>>
    /\ loads[1].videoId # page
    /\ rawSegments = <<>>
    /\ embeddedSegments = <<>>
    /\ store = <<>>

\* The chunk list is the one loaded for the video.
ChunksOfVideo(segments, videoId) ==
    /\ Len(segments) = Len(VideoChunks(videoId))
    /\ \A k \in 1..Len(segments) :
          /\ segments[k].text = VideoChunks(videoId)[k].text
          /\ segments[k].start = VideoChunks(videoId)[k].start

\* C23: a SEARCH_REQUEST received after a navigation is not answered from
\* the chunks of a video other than the one the page shows.
C23_NoAnswerFromPreviousVideo ==
    [][(reqPc = "sent" /\ reqPc' # "sent") =>
           \A v \in Videos \ {page} : ~ChunksOfVideo(reqSegments', v)]_vars

\* C24: when an embedding call failed during the load of the mounted Panel,
\* the load ended in state ready with the chunk list and no embedded chunk:
\* the transcript view searches without the semantic part and the store
\* holds the chunks with empty embeddings, which the SEARCH_REQUEST listener
\* searches with exactSearch.
C24_EmbeddingFailureDegrades ==
    (inst # 0 /\ loads[inst].failed /\ ~loads[inst].stale) =>
        /\ loadState = "ready"
        /\ rawSegments = loads[inst].chunks
        /\ rawSegments # <<>>
        /\ embeddedSegments = <<>>
        /\ ~semanticEnabled
        /\ store = embeddedOrRaw(<<>>, rawSegments)
        /\ ~SomeEmbedding(store)

\* C24 witness: an embedding call of a load of two chunks failed, and a
\* SEARCH_REQUEST was answered by exact search over the chunks without
\* embeddings.
C24_Witness ==
    /\ inst # 0
    /\ loads[inst].failed
    /\ ~loads[inst].stale
    /\ Len(loads[inst].chunks) = 2
    /\ loadState = "ready"
    /\ reqPc = "responded"
    /\ reqSegments = store
    /\ reqResponse = ExactResponse(reqQuery, store)

----------------------------------------------------------------------------
(* Chat view: ChatTab with sendMessage, its chunkListener, clearChat and    *)
(* the effects that hydrate the conversation from sessionStorage and        *)
(* persist it. The text of the assistant turn is the number of deltas in    *)
(* fullText. Panel renders ChatTab only while the chat tab is selected.     *)

\* Bounds: ChatTab instances mounted, and calls of sendMessage.
MaxChatTabs == 2
MaxTurns == 2

UserMessage == [role |-> "user", content |-> <<"q">>]
AssistantMessage(fullTextDeltas) == [role |-> "assistant", content |-> fullTextDeltas]

\* response.error / err.message
ErrorText == <<"error">>

\* prev.slice(0, -1)
DropLast(list) == IF list = <<>> THEN <<>> ELSE SubSeq(list, 1, Len(list) - 1)

\* updated[updated.length - 1] = { role: "assistant", content }: on an empty
\* array the assignment sets the property "-1" and adds no element
ReplaceLast(list, message) ==
    IF list = <<>> THEN <<>> ELSE [list EXCEPT ![Len(list)] = message]

\* the chunkListener leaving the search status on CHAT_CHUNK
SearchPhaseAfterChunkKept(phase) == phase

\* chunkListener on CHAT_CHUNK: setSearchPhase(null)
SearchPhaseAfterChunk(phase) == Null

\* A chunkListener is registered by a turn of the mounted ChatTab.
Listening == \E u \in 1..Len(turns) : turns[u].listening /\ turns[u].tab = chatTab

ViewInit ==
    /\ chatTab = 0
    /\ chatTabs = 0
    /\ messages = <<>>
    /\ loading = FALSE
    /\ searchPhase = Null
    /\ chatError = <<>>
    /\ stored = <<>>
    /\ turns = <<>>
    /\ ViewOthersIdle

\* Panel renders <ChatTab />: the hydrate effect reads the stored
\* conversation, the persist effect writes it back.
ChatTabMount ==
    /\ chatTab = 0
    /\ chatTabs < MaxChatTabs
    /\ chatTab' = chatTabs + 1
    /\ chatTabs' = chatTabs + 1
    /\ messages' = stored
    /\ loading' = FALSE
    /\ searchPhase' = Null
    /\ chatError' = <<>>
    /\ UNCHANGED <<stored, turns, viewOthers>>

\* Another tab is selected, the panel is closed or cleanup() runs: ChatTab
\* unmounts and its state is gone.
ChatTabUnmount ==
    /\ chatTab # 0
    /\ chatTab' = 0
    /\ messages' = <<>>
    /\ loading' = FALSE
    /\ searchPhase' = Null
    /\ chatError' = <<>>
    /\ UNCHANGED <<chatTabs, stored, turns, viewOthers>>

\* sendMessage up to await chrome.runtime.sendMessage(CHAT_STREAM)
SendMessage ==
    /\ chatTab # 0
    /\ ~loading
    /\ Len(turns) < MaxTurns
    /\ messages' = messages \o <<UserMessage, AssistantMessage(0)>>
    /\ stored' = messages'
    /\ loading' = TRUE
    /\ chatError' = <<>>
    /\ searchPhase' = Null
    /\ turns' = Append(turns, [tab |-> chatTab, pc |-> "streaming", fullText |-> 0,
                               searches |-> 0, last |-> "none",
                               listening |-> TRUE])
    /\ UNCHANGED <<chatTab, chatTabs, viewOthers>>

\* clearChat
ClearChat ==
    /\ chatTab # 0
    /\ messages # <<>>
    /\ messages' = <<>>
    /\ stored' = <<>>
    /\ UNCHANGED <<chatTab, chatTabs, loading, searchPhase, chatError, turns, viewOthers>>

\* The stream of turn t yields a tool-call: CHAT_SEARCHING reaches the tab,
\* chunkListener runs setSearchPhase(msg.payload.query ?? null).
ChatSearchingEvent(t) ==
    /\ turns[t].pc = "streaming"
    /\ turns[t].searches < MaxSteps - 1
    /\ turns' = [turns EXCEPT ![t].searches = @ + 1, ![t].last = "CHAT_SEARCHING"]
    /\ searchPhase' = IF Listening THEN JsString(<<"a">>) ELSE searchPhase
    /\ UNCHANGED <<chatTab, chatTabs, messages, loading, chatError, stored, viewOthers>>

\* The stream of turn t yields a text-delta: CHAT_CHUNK reaches the tab,
\* chunkListener clears the status and sets the last message.
ChatChunkEvent(t) ==
    /\ turns[t].pc = "streaming"
    /\ turns[t].fullText < MaxDeltas
    /\ turns' = [turns EXCEPT ![t].fullText = @ + 1, ![t].last = "CHAT_CHUNK"]
    /\ IF Listening
       THEN /\ searchPhase' = SearchPhaseAfterChunk(searchPhase)
            /\ messages' = ReplaceLast(messages, AssistantMessage(turns[t].fullText + 1))
            /\ stored' = messages'
       ELSE UNCHANGED <<searchPhase, messages, stored>>
    /\ UNCHANGED <<chatTab, chatTabs, loading, chatError, viewOthers>>

\* The CHAT_STREAM request of turn t settles: sendResponse({ ok }),
\* sendResponse({ error }) or a rejected sendMessage; then the finally block.
ChatStreamSettle(t) ==
    /\ turns[t].pc = "streaming"
    /\ \E outcome \in {"ok", "error", "threw"} :
          /\ turns' = [turns EXCEPT ![t].pc = outcome, ![t].listening = FALSE]
          /\ IF turns[t].tab = chatTab
             THEN /\ chatError' = IF outcome = "ok" THEN chatError ELSE ErrorText
                  /\ messages' = IF outcome = "ok" THEN messages ELSE DropLast(messages)
                  /\ stored' = messages'
                  /\ loading' = FALSE
                  /\ searchPhase' = Null
             ELSE UNCHANGED <<chatError, messages, stored, loading, searchPhase>>
    /\ UNCHANGED <<chatTab, chatTabs, viewOthers>>

ViewNext ==
    \/ ChatTabMount
    \/ ChatTabUnmount
    \/ SendMessage
    \/ ClearChat
    \/ \E t \in 1..Len(turns) : ChatSearchingEvent(t)
    \/ \E t \in 1..Len(turns) : ChatChunkEvent(t)
    \/ \E t \in 1..Len(turns) : ChatStreamSettle(t)

SpecView == ViewInit /\ [][ViewNext]_vars

\* The conversation the chat shows: the state of the mounted ChatTab, else
\* the stored conversation a ChatTab will be hydrated from.
Conversation == IF chatTab # 0 THEN messages ELSE stored

\* C25: when the chat request of a turn returns an error or throws, the
\* conversation ends with the user's message, the error text is recorded,
\* and the loading flag and the search status are cleared.
C25_ErrorDropsAssistantTurn ==
    [][\A t \in 1..Len(turns) :
           (turns[t].pc = "streaming" /\ turns'[t].pc \in {"error", "threw"}) =>
               /\ Conversation' # <<>>
               /\ Conversation'[Len(Conversation')] = UserMessage
               /\ chatError' = ErrorText
               /\ ~loading'
               /\ searchPhase' = Null]_vars

\* C36: when the chat request of a turn returns ok, the conversation ends
\* with the assistant message holding the fullText of the response.
C36_SuccessShowsFullText ==
    [][\A t \in 1..Len(turns) :
           (turns[t].pc = "streaming" /\ turns'[t].pc = "ok") =>
               /\ Conversation' # <<>>
               /\ Conversation'[Len(Conversation')] = AssistantMessage(turns[t].fullText)]_vars

\* C26: a CHAT_CHUNK processed by the chunkListener leaves the search status
\* cleared, the end of a turn leaves it cleared, and outside a turn it is
\* cleared.
C26_ChunkClearsSearching ==
    [][/\ \A t \in 1..Len(turns) :
             (turns'[t].fullText # turns[t].fullText /\ Listening) => searchPhase' = Null
       /\ \A t \in 1..Len(turns) :
             (turns[t].listening /\ ~turns'[t].listening) =>
                 (turns[t].tab = chatTab => searchPhase' = Null)
       /\ ~loading' => searchPhase' = Null]_vars

\* C26 witness: in the second turn two CHAT_SEARCHING and two CHAT_CHUNK
\* were processed, the last of them a CHAT_CHUNK, and the turn is still
\* running with the status cleared.
C26_Witness ==
    /\ Len(turns) = 2
    /\ turns[2].pc = "streaming"
    /\ turns[2].tab = chatTab
    /\ turns[2].fullText = 2
    /\ turns[2].searches = 2
    /\ turns[2].last = "CHAT_CHUNK"
    /\ loading
    /\ searchPhase = Null
    /\ messages # <<>>
    /\ messages[Len(messages)] = AssistantMessage(2)

----------------------------------------------------------------------------
(* Timeline view: TimelineTab with its two effects, generateTitles, the     *)
(* Regenerate button and the title cache (cacheKey, loadCache, saveCache).  *)
(* One video; the cache holds one item per segmentation method.             *)

\* Bounds: TimelineTab instances mounted, and calls of generateTitles.
MaxTimelineTabs == 2
MaxGens == 2

Methods == { "semantic", "time" }

\* saveCache: { segMethod, blockCount: blocks.length, titles }
CacheEntry(method, titledBlocks) ==
    [segMethod |-> method, blockCount |-> Len(titledBlocks),
     titles |-> [k \in 1..Len(titledBlocks) |->
                    IF titledBlocks[k].title = "null" THEN "" ELSE titledBlocks[k].title]]

\* the cache test ignoring the block count
IsCacheHitAnyCount(cached, newBlocks) == cached # Null

\* cached && cached.blockCount === newBlocks.length
IsCacheHit(cached, newBlocks) == cached # Null /\ cached.blockCount = Len(newBlocks)

\* newBlocks.map((b, i) => ({ ...b, title: cached.titles[i] || null }))
Restored(newBlocks, cached) ==
    [k \in 1..Len(newBlocks) |->
        [newBlocks[k] EXCEPT !.title = IF k > Len(cached.titles) \/ cached.titles[k] = ""
                                       THEN "null" ELSE cached.titles[k]]]

\* currentBlocks.map((b, i) => ({ ...b, title: titles[i] ?? `Segment ${i + 1}` }))
Titled(currentBlocks, titles) ==
    [k \in 1..Len(currentBlocks) |->
        [currentBlocks[k] EXCEPT !.title = IF k <= Len(titles) THEN titles[k]
                                           ELSE "Segment"]]

\* The segments prop: chunks of 60 s without embeddings (one block, two
\* blocks) and with embeddings.
TimelineProps ==
    { RawGroupList(2, 60, 0), RawGroupList(5, 60, 0),
      [i \in 1..5 |-> GroupSegment(i - 1, 60, 0, <<1, 0>>)] }

\* Items left in localStorage by earlier sessions.
OldEntries ==
    { Null } \cup { [segMethod |-> m, blockCount |-> n, titles |-> [k \in 1..n |-> "old"]] :
                      m \in Methods, n \in 1..2 }

TimelineInit ==
    /\ titleCache \in { c \in [Methods -> OldEntries] :
                          \A m \in Methods : c[m] # Null => c[m].segMethod = m }
    /\ tlSegments \in TimelineProps
    /\ hasProvider \in BOOLEAN
    /\ timelineTab = 0
    /\ timelineTabs = 0
    /\ tlBlocks = <<>>
    /\ segMethod = "time"
    /\ generating = FALSE
    /\ genError = <<>>
    /\ hasGeneratedRef = FALSE
    /\ gens = <<>>
    /\ TimelineOthersIdle

\* A call of generateTitles(currentBlocks) by the mounted TimelineTab, up to
\* await chrome.runtime.sendMessage(GENERATE_TIMELINE).
NewGen(currentBlocks, method) ==
    [tab |-> timelineTab', currentBlocks |-> currentBlocks, segMethod |-> method,
     pc |-> "pending"]

\* The effect on [segments, videoId], and the effect on [blocks.length,
\* hasProvider] when the number of blocks changed: prevLen is blocks.length
\* of the render before.
Resegment(prevLen, wasGenerating, prevError) ==
    LET r == groupIntoBlocks(tlSegments)
        cached == titleCache[r.method]
        hit == IsCacheHit(cached, r.blocks)
        autoGenerate == /\ ~hit
                        /\ Len(r.blocks) # prevLen
                        /\ Len(r.blocks) > 0
                        /\ hasProvider
                        /\ ~wasGenerating
    IN /\ segMethod' = r.method
       /\ tlBlocks' = IF hit THEN Restored(r.blocks, cached) ELSE r.blocks
       /\ hasGeneratedRef' = (hit \/ autoGenerate)
       /\ generating' = (wasGenerating \/ autoGenerate)
       /\ genError' = IF autoGenerate THEN <<>> ELSE prevError
       /\ gens' = IF autoGenerate THEN Append(gens, NewGen(r.blocks, r.method)) ELSE gens

\* Panel renders <TimelineTab />: first render, then both effects.
TimelineMount ==
    /\ timelineTab = 0
    /\ timelineTabs < MaxTimelineTabs
    /\ Len(gens) < MaxGens
    /\ timelineTab' = timelineTabs + 1
    /\ timelineTabs' = timelineTabs + 1
    /\ Resegment(0, FALSE, <<>>)
    /\ UNCHANGED <<titleCache, tlSegments, hasProvider, timelineOthers>>

\* Panel renders again with a new embeddedOrRaw array: the effect on
\* [segments, videoId] runs again.
TimelineRerender ==
    /\ timelineTab # 0
    /\ Len(gens) < MaxGens
    /\ timelineTab' = timelineTab
    /\ Resegment(Len(tlBlocks), generating, genError)
    /\ UNCHANGED <<titleCache, tlSegments, hasProvider, timelineTabs, timelineOthers>>

\* Another tab is selected or the panel closes: TimelineTab unmounts.
TimelineUnmount ==
    /\ timelineTab # 0
    /\ timelineTab' = 0
    /\ tlBlocks' = <<>>
    /\ segMethod' = "time"
    /\ generating' = FALSE
    /\ genError' = <<>>
    /\ hasGeneratedRef' = FALSE
    /\ UNCHANGED <<titleCache, tlSegments, hasProvider, timelineTabs, gens, timelineOthers>>

\* Regenerate onClick: localStorage.removeItem(cacheKey(videoId, segMethod))
CacheAfterRegenerate(cache, method) == [cache EXCEPT ![method] = Null]

\* Regenerate onClick (the button shows with a provider, while not
\* generating), then generateTitles(blocks).
Regenerate ==
    /\ timelineTab # 0
    /\ hasProvider
    /\ ~generating
    /\ tlBlocks # <<>>
    /\ Len(gens) < MaxGens
    /\ titleCache' = CacheAfterRegenerate(titleCache, segMethod)
    /\ hasGeneratedRef' = TRUE
    /\ generating' = TRUE
    /\ genError' = <<>>
    /\ timelineTab' = timelineTab
    /\ gens' = Append(gens, NewGen(tlBlocks, segMethod))
    /\ UNCHANGED <<tlSegments, hasProvider, timelineTabs, tlBlocks, segMethod, timelineOthers>>

\* The answers to GENERATE_TIMELINE: titles for every block, an empty list
\* of titles, { error }, no response, a rejected sendMessage.
GenOutcomes == { "titles", "noTitles", "error", "undefined", "threw" }

\* a failed generation saving the blocks as they are
SavesCacheAlways(outcome) == TRUE

\* else if (response?.titles): saveCache runs on this branch only
SavesCache(outcome) == outcome \in {"titles", "noTitles"}

\* The request of generateTitles call g settles; then the finally block.
GenerateSettle(g) ==
    /\ gens[g].pc = "pending"
    /\ \E outcome \in GenOutcomes :
          LET titles == IF outcome = "titles"
                        THEN [k \in 1..Len(gens[g].currentBlocks) |-> "new"] ELSE <<>>
              updated == IF outcome \in {"titles", "noTitles"}
                         THEN Titled(gens[g].currentBlocks, titles)
                         ELSE gens[g].currentBlocks
          IN /\ gens' = [gens EXCEPT ![g].pc = outcome]
             /\ titleCache' = IF SavesCache(outcome)
                              THEN [titleCache EXCEPT ![gens[g].segMethod] =
                                        CacheEntry(gens[g].segMethod, updated)]
                              ELSE titleCache
             /\ IF gens[g].tab = timelineTab
                THEN /\ tlBlocks' = IF outcome \in {"titles", "noTitles"}
                                    THEN updated ELSE tlBlocks
                     /\ genError' = IF outcome \in {"error", "threw"}
                                    THEN ErrorText ELSE genError
                     /\ generating' = FALSE
                ELSE UNCHANGED <<tlBlocks, genError, generating>>
    /\ UNCHANGED <<tlSegments, hasProvider, timelineTab, timelineTabs, segMethod,
                   hasGeneratedRef, timelineOthers>>

TimelineNext ==
    \/ TimelineMount
    \/ TimelineRerender
    \/ TimelineUnmount
    \/ Regenerate
    \/ \E g \in 1..Len(gens) : GenerateSettle(g)

SpecTimeline == TimelineInit /\ [][TimelineNext]_vars

\* The call of generateTitles a step starts, if it starts one.
StartsGeneration == Len(gens') = Len(gens) + 1

C28_CacheWrittenAfterSuccess ==
    [][/\ \A m \in Methods :
             (titleCache'[m] # titleCache[m] /\ titleCache'[m] # Null) =>
                 \E g \in 1..Len(gens) :
                     /\ gens[g].pc = "pending"
                     /\ gens'[g].pc \in {"titles", "noTitles"}
                     /\ gens[g].segMethod = m
                     /\ titleCache'[m].blockCount = Len(gens[g].currentBlocks)
       /\ Regenerate =>
             /\ titleCache'[segMethod] = Null
             /\ StartsGeneration
             /\ gens'[Len(gens')].pc = "pending"
       /\ \A g \in 1..Len(gens) :
             (gens[g].pc = "pending" /\ gens'[g].pc \in {"error", "undefined", "threw"}) =>
                 titleCache' = titleCache]_vars

\* C28 witness: the Regenerate button removed the cached item, its request
\* failed, and the cache holds no item for the method.
C28_Witness ==
    /\ timelineTab # 0
    /\ Len(gens) = 1
    /\ gens[1].pc = "error"
    /\ \A k \in 1..Len(tlBlocks) : tlBlocks[k].title = "old"
    /\ tlBlocks # <<>>
    /\ titleCache[segMethod] = Null

----------------------------------------------------------------------------
(* Transcript view: TranscriptTab with runSearch, handleSearchInput,        *)
(* submitSearch and the clear button, in a Panel whose load is ready.       *)

\* Bound: calls of runSearch that wait for hybridSearch.
MaxSearches == 2

\* The texts typed into the search bar.
TypedQueries == { <<>>, <<" ">>, <<"a">>, <<"c">> }

\* embedSegments(chunks) of a finished load
EmbeddedChunks(list) ==
    [k \in 1..Len(list) |-> EmbeddedChunk(list[k], EmbeddingOf(list[k].text), k - 1)]

\* the segments prop of TranscriptTab
TvSegments == embeddedOrRaw(embeddedSegments, rawSegments)

TranscriptInit ==
    /\ page = "v1"
    /\ inst = 1
    /\ semanticSearchEnabled \in BOOLEAN
    /\ open = TRUE
    /\ loadState = "ready"
    /\ rawSegments = VideoChunks("v1")
    /\ embeddedSegments \in
          IF semanticSearchEnabled THEN { <<>>, EmbeddedChunks(VideoChunks("v1")) }
          ELSE { <<>> }
    /\ loads = << [NoLoad EXCEPT !.pc = "done", !.videoId = "v1",
                                 !.chunks = rawSegments,
                                 !.embedded = embeddedSegments,
                                 !.failed = semanticSearchEnabled /\ embeddedSegments = <<>>] >>
    /\ store = TvSegments
    /\ bgPc = "off"
    /\ tabId = "tab"
    /\ step = 0
    /\ toolSteps = {}
    /\ toolCalls = 0
    /\ toolOutcome = NoOutcome
    /\ fullText = 0
    /\ tabEvents = <<>>
    /\ reqPc = "none"
    /\ reqQuery = <<>>
    /\ reqSegments = <<>>
    /\ reqResponse = Undefined
    /\ tvQuery = <<>>
    /\ searchResults = Null
    /\ searching = FALSE
    /\ debounceRef = Null
    /\ searches = <<>>
    /\ ChunkIdle /\ SearchIdle /\ GroupIdle /\ LocatorIdle /\ FetchIdle /\ ViewIdle
    /\ TimelineIdle /\ AuxIdle

transcriptRest == <<chunkVars, searchVars, groupVars, chatVars, locatorVars, fetchVars,
                    panelVars, viewVars, timelineVars, auxVars>>

\* runSearch(q) up to its first await, or to its end on the exact path
runSearch(q) ==
    IF IsBlankQuery(q)
    THEN /\ searchResults' = Null
         /\ UNCHANGED <<searching, searches>>
    ELSE IF semanticEnabled
    THEN /\ searching' = TRUE
         /\ searches' = Append(searches, [q |-> q, pc |-> "embedding"])
         /\ UNCHANGED searchResults
    ELSE /\ searchResults' = JsArray(exactSearch(q, TvSegments))
         /\ searching' = FALSE
         /\ UNCHANGED searches

\* handleSearchInput: setQuery(q), clearTimeout, and for a blank query
\* setSearchResults(null), else a new timer
HandleSearchInput ==
    /\ \E q \in TypedQueries :
          /\ tvQuery' = q
          /\ IF IsBlankQuery(q)
             THEN searchResults' = Null /\ debounceRef' = Null
             ELSE searchResults' = searchResults /\ debounceRef' = JsString(q)
    /\ UNCHANGED <<searching, searches, transcriptRest>>

\* The debounce timer fires: runSearch(q) with the q of the input event.
DebounceFire ==
    /\ debounceRef # Null
    /\ Len(searches) < MaxSearches
    /\ debounceRef' = Null
    /\ runSearch(debounceRef.pieces)
    /\ UNCHANGED <<tvQuery, transcriptRest>>

\* Enter: submitSearch
SubmitSearch ==
    /\ Len(searches) < MaxSearches
    /\ debounceRef' = Null
    /\ runSearch(Trim(tvQuery))
    /\ UNCHANGED <<tvQuery, transcriptRest>>

\* The clear button (shown for a query, while not searching):
\* setQuery(""), setSearchResults(null)
ClearSearch ==
    /\ ~searching
    /\ tvQuery # <<>>
    /\ tvQuery' = <<>>
    /\ searchResults' = Null
    /\ UNCHANGED <<searching, debounceRef, searches, transcriptRest>>

\* hybridSearch of call k resolves: setSearchResults, setSearching(false)
RunSearchResolve(k) ==
    /\ searches[k].pc = "embedding"
    /\ \E qe \in ChatQueryVecs :
          searchResults' = JsArray(hybridSearch(searches[k].q, TvSegments, DefaultTopK, qe))
    /\ searching' = FALSE
    /\ searches' = [searches EXCEPT ![k].pc = "done"]
    /\ UNCHANGED <<tvQuery, debounceRef, transcriptRest>>

\* hybridSearch of call k rejects: the catch sets the exact-search fallback
RunSearchReject(k) ==
    /\ searches[k].pc = "embedding"
    /\ searchResults' = JsArray(exactSearch(searches[k].q, TvSegments))
    /\ searching' = FALSE
    /\ searches' = [searches EXCEPT ![k].pc = "done"]
    /\ UNCHANGED <<tvQuery, debounceRef, transcriptRest>>

TranscriptNext ==
    \/ HandleSearchInput
    \/ DebounceFire
    \/ SubmitSearch
    \/ ClearSearch
    \/ \E k \in 1..Len(searches) : RunSearchResolve(k)
    \/ \E k \in 1..Len(searches) : RunSearchReject(k)

SpecTranscript == TranscriptInit /\ [][TranscriptNext]_vars

\* C37: a search that settles after a search issued later for another query
\* has settled leaves the displayed results of the later one in place.
C37_NewerResultsKept ==
    [][\A k \in 1..Len(searches) :
           (/\ searches[k].pc = "embedding"
            /\ searches'[k].pc = "done"
            /\ \E j \in (k + 1)..Len(searches) :
                  searches[j].pc = "done" /\ searches[j].q # searches[k].q)
           => searchResults' = searchResults]_vars

\* C29: whenever the query of the search bar is empty, the search results
\* are reset to none and the full chunk list is shown.
C29_EmptyQueryShowsAll == tvQuery = <<>> => searchResults = Null

----------------------------------------------------------------------------
(* Load pipeline: Panel.loadTranscript over fetchTranscript, chunkTranscript *)
(* and embedSegments, for one mounted Panel.                                *)

\* targetWords = 80, the default of chunkTranscript
DefaultTargetWords == 80

\* embedSegments handed the cue list instead of the chunks
EmbedInputCues(newChunks, segments) == segments

\* embedSegments(chunks, ...): the list the embedding stage works on
EmbedInput(newChunks, segments) == newChunks

loadRest == <<searchVars, groupVars, locatorVars, viewVars, timelineVars, transcriptVars,
              auxVars>>

PipelineInit ==
    /\ page = "v1"
    /\ inst = 1
    /\ semanticSearchEnabled \in BOOLEAN
    /\ open = FALSE
    /\ loadState = "idle"
    /\ rawSegments = <<>>
    /\ embeddedSegments = <<>>
    /\ loads = << NoLoad >>
    /\ fPc = "idle"
    /\ fDom \in DomTrackLists
    /\ fTracks = <<>>
    /\ fBgError = Null
    /\ fDiag = <<>>
    /\ fPreferred = Undefined
    /\ fCleanBase = Undefined
    /\ fOutcome = Undefined
    /\ ChunkIdle /\ ChatIdle /\ SearchIdle /\ GroupIdle /\ LocatorIdle /\ ViewIdle
    /\ TimelineIdle /\ TranscriptIdle /\ AuxIdle

\* The trigger opens the Panel: the effect on [open] finds loadState idle and
\* calls loadTranscript(videoId): setLoadState("fetching"), then fetchTranscript
\* up to await getCaptionTracksViaPageFetch(videoId).
PipelineOpen ==
    /\ ~open
    /\ loadState = "idle"
    /\ open' = TRUE
    /\ loadState' = "fetching"
    /\ loads' = [loads EXCEPT ![inst] = [NoLoad EXCEPT !.pc = "fetching", !.videoId = page]]
    /\ fPc' = "pageFetch"
    /\ store' = embeddedOrRaw(embeddedSegments, rawSegments)
    /\ UNCHANGED <<page, inst, semanticSearchEnabled, rawSegments, embeddedSegments,
                   fDom, fTracks, fBgError, fDiag, fPreferred, fCleanBase, fOutcome,
                   chunkVars, turnVars, requestVars, loadRest>>

\* await fetchTranscript(videoId) resolves: chunkTranscript(segments),
\* setRawSegments(chunks), then setLoadState("embedding") and embedSegments,
\* or setLoadState("ready").
PipelineChunk ==
    /\ loads[inst].pc = "fetching"
    /\ fPc = "resolved"
    /\ LET segments == fOutcome.segments
           newChunks == chunkTranscript(segments, DefaultTargetWords)
       IN /\ cues' = segments
          /\ targetWords' = DefaultTargetWords
          /\ chunks' = newChunks
          /\ chunkPc' = "done"
          /\ loads' = [loads EXCEPT ![inst].chunks = EmbedInput(newChunks, segments),
                                    ![inst].pc = IF semanticSearchEnabled
                                                 THEN "embedding" ELSE "done"]
          /\ SetPanelState(inst, IF semanticSearchEnabled THEN "embedding" ELSE "ready",
                           newChunks, embeddedSegments)
    /\ UNCHANGED <<page, inst, semanticSearchEnabled, open, fetchVars, turnVars,
                   requestVars, loadRest>>

\* await fetchTranscript(videoId) rejects: the outer catch of loadTranscript
PipelineFetchFailed ==
    /\ loads[inst].pc = "fetching"
    /\ fPc = "rejected"
    /\ loads' = [loads EXCEPT ![inst].pc = "done"]
    /\ SetPanelState(inst, "error", rawSegments, embeddedSegments)
    /\ UNCHANGED <<page, inst, semanticSearchEnabled, open, fetchVars, chunkVars, turnVars,
                   requestVars, loadRest>>

PipelineNext ==
    \/ PipelineOpen
    \/ PageFetchResolve
    \/ PageFetchReject
    \/ GetTranscriptResolve
    \/ GetTranscriptReject
    \/ Json3Resolve
    \/ Json3Reject
    \/ XmlResolve
    \/ XmlReject
    \/ PipelineChunk
    \/ PipelineFetchFailed
    \/ LoadEmbedResolve(inst)
    \/ LoadEmbedReject(inst)

SpecPipeline == PipelineInit /\ [][PipelineNext]_vars

\* The requests of fetchTranscript for cue data are in flight.
CueFetchInFlight == fPc \in {"getTranscript", "json3", "xml"}

\* C31: a cue fetch is in flight only once the tracks are resolved and one of
\* them is selected; chunkTranscript has run only on the cues the fetch
\* resolved with; the embedding works only on the chunks chunkTranscript gave.
C31_PipelineOrder ==
    /\ CueFetchInFlight =>
          /\ Len(fTracks) > 0
          /\ \E i \in 1..Len(fTracks) : fPreferred = fTracks[i]
          /\ HasStep(fDiag, SelectLabel)
    /\ chunkPc = "done" =>
          /\ fPc = "resolved"
          /\ Len(fOutcome.segments) > 0
          /\ cues = fOutcome.segments
    /\ (chunkPc # "done" /\ Len(loads) > 0) =>
          /\ loads[1].pc \in {"none", "fetching", "done"}
          /\ loads[1].embedded = <<>>
          /\ embeddedSegments = <<>>
          /\ rawSegments = <<>>
    /\ (Len(loads) > 0 /\ (loads[1].pc = "embedding" \/ loads[1].embedded # <<>>)) =>
          /\ chunkPc = "done"
          /\ loads[1].chunks = chunks
          /\ chunks = chunkTranscript(fOutcome.segments, DefaultTargetWords)
          /\ \A k \in 1..Len(loads[1].embedded) :
                loads[1].embedded[k].text = chunks[k].text

\* C31 witness: a run that went through the DOM fallback, the XML cue fetch,
\* chunking of several cues and the embedding, and is ready.
C31_Witness ==
    /\ loadState = "ready"
    /\ embeddedSegments # <<>>
    /\ fPc = "resolved"
    /\ HasStep(fDiag, DomLabel)
    /\ HasStep(fDiag, XmlLabel)
    /\ Len(cues) >= 2
    /\ chunkPc = "done"

----------------------------------------------------------------------------
(* The diagnostics trace of fetchTranscript.                                *)

\* a is a prefix of b
IsPrefix(a, b) == Len(a) <= Len(b) /\ SubSeq(b, 1, Len(a)) = a

\* The steps of later that come after the steps of earlier carry label.
AppendsStep(earlier, later, label) ==
    \E i \in (Len(earlier) + 1)..Len(later) : later[i].label = label

\* C32: every step of fetchTranscript leaves the steps pushed so far in place
\* and unmodified, and each attempt that ends (page fetch, DOM fallback,
\* get_transcript, JSON3, XML) has pushed a step of its own, whether it
\* succeeded or failed.
C32_DiagnosticsAppendOnly ==
    [][ /\ IsPrefix(fDiag, fDiag')
        /\ (fPc = "pageFetch" /\ fPc' # "pageFetch") =>
              /\ Len(fDiag') > Len(fDiag)
              /\ fDiag'[Len(fDiag) + 1].label = PageFetchLabel
              /\ fDiag'[Len(fDiag) + 1].status \in {"warn", "error"} =>
                    /\ Len(fDiag') > Len(fDiag) + 1
                    /\ fDiag'[Len(fDiag) + 2].label = DomLabel
        /\ (fPc = "getTranscript" /\ fPc' # "getTranscript") =>
              AppendsStep(fDiag, fDiag', GetTranscriptLabel)
        /\ (fPc = "json3" /\ fPc' # "json3") => AppendsStep(fDiag, fDiag', Json3Label)
        /\ (fPc = "xml" /\ fPc' # "xml") => AppendsStep(fDiag, fDiag', XmlLabel)
      ]_vars

\* C32 witness: every strategy was attempted and failed, the XML request
\* without a response, and each left its step.
C32_Witness ==
    /\ fPc = "rejected"
    /\ HasStep(fDiag, PageFetchLabel)
    /\ HasStep(fDiag, DomLabel)
    /\ HasStep(fDiag, GetTranscriptLabel)
    /\ HasStep(fDiag, Json3Label)
    /\ HasStep(fDiag, XmlLabel)
    /\ ~HasStep(fDiag, XmlHttpLabel)
    /\ fBgError # Null

----------------------------------------------------------------------------
(* The load state of one mounted Panel.                                     *)

\* The moves of loadState the load pipeline makes.
PipelineMoves ==
    { <<"idle", "fetching">>, <<"fetching", "embedding">>, <<"fetching", "ready">>,
      <<"fetching", "error">>, <<"embedding", "ready">>, <<"embedding", "error">> }

\* A step that keeps the mounted Panel mounted.
SamePanel == inst # 0 /\ inst' = inst

\* loadTranscript is called for the mounted Panel.
LoadStarts == loads[inst].pc = "none" /\ loads'[inst].pc # "none"

\* What holds of every step of a mounted Panel whichever moves are allowed:
\* a load starts only on opening an idle Panel, at most once, and toggling a
\* Panel that is not idle changes neither the load state nor the load.
LoadOnce(moves) ==
    SamePanel =>
        /\ loadState' # loadState => <<loadState, loadState'>> \in moves
        /\ loads'[inst].pc # "none" => loads[inst].videoId \in {"none", loads'[inst].videoId}
        /\ LoadStarts <=> (loadState = "idle" /\ loadState' = "fetching")
        /\ LoadStarts => (~open /\ open')
        /\ (open' # open /\ loadState # "idle") =>
              (loadState' = loadState /\ loads' = loads)

\* C33 as stated: the load state of a mounted Panel moves idle, fetching,
\* optionally embedding, then ready or error, never back to idle; a load
\* starts only on opening an idle Panel, and at most once.
C33_LoadOnceThroughFetching == [][LoadOnce(PipelineMoves)]_vars

\* C33 amended: as stated, and opening an idle Panel on a location without a
\* video id moves the load state from idle to error without starting a load.
C33_LoadOnce ==
    [][ /\ LoadOnce(PipelineMoves \cup { <<"idle", "error">> })
        /\ (SamePanel /\ loadState = "idle" /\ loadState' = "error") =>
              (~HasVideoId(page) /\ ~open /\ open' /\ loads' = loads)
      ]_vars

\* C33 witness: the Panel was opened, its load ran through the embedding
\* and is ready, and the Panel is closed: the next toggle reopens it.
C33_Witness ==
    /\ inst # 0
    /\ ~open
    /\ loadState = "ready"
    /\ loads[inst].pc = "done"
    /\ embeddedSegments # <<>>

----------------------------------------------------------------------------
(* Caption-track extraction from the text of a script tag.                  *)
(* A text is a sequence of pieces: the characters " \ [ ] { } , : ; and     *)
(* words that hold none of them.                                            *)

Quote == "\""
Backslash == "\\"

JsObject(keys, values) == [type |-> "object", keys |-> keys, values |-> values]

\* The JSON text of a string: quotes and backslashes escaped.
RECURSIVE Escape(_)
Escape(pieces) ==
    IF pieces = <<>> THEN <<>>
    ELSE (IF Head(pieces) \in {Quote, Backslash} THEN <<Backslash, Head(pieces)>>
          ELSE <<Head(pieces)>>) \o Escape(Tail(pieces))

\* The JSON text of a value, as the page's scripts hold it.
RECURSIVE Render(_)
RECURSIVE RenderItems(_)
RECURSIVE RenderMembers(_, _)
Render(v) ==
    IF v.type = "string" THEN <<Quote>> \o Escape(v.pieces) \o <<Quote>>
    ELSE IF v.type = "array" THEN <<"[">> \o RenderItems(v.items) \o <<"]">>
    ELSE <<"{">> \o RenderMembers(v.keys, v.values) \o <<"}">>

RenderItems(items) ==
    IF items = <<>> THEN <<>>
    ELSE Render(Head(items))
         \o (IF Tail(items) = <<>> THEN <<>> ELSE <<",">> \o RenderItems(Tail(items)))

RenderMembers(keys, values) ==
    IF keys = <<>> THEN <<>>
    ELSE <<Quote>> \o Escape(Head(keys)) \o <<Quote, ":">> \o Render(Head(values))
         \o (IF Tail(keys) = <<>> THEN <<>>
             ELSE <<",">> \o RenderMembers(Tail(keys), Tail(values)))

\* JSON.parse over strings, arrays and objects: the value read from piece i
\* and the position after it, or a failure.
JsonFailure == [ok |-> FALSE, value |-> Undefined, next |-> 0]
Parsed(value, next) == [ok |-> TRUE, value |-> value, next |-> next]
PieceAt(t, i) == IF i \in 1..Len(t) THEN t[i] ELSE "end of text"

RECURSIVE ParseString(_, _, _)
ParseString(t, i, acc) ==
    IF i > Len(t) THEN JsonFailure
    ELSE IF t[i] = Quote THEN Parsed(JsString(acc), i + 1)
    ELSE IF t[i] = Backslash
    THEN IF PieceAt(t, i + 1) \in {Quote, Backslash}
         THEN ParseString(t, i + 2, Append(acc, t[i + 1]))
         ELSE JsonFailure
    ELSE ParseString(t, i + 1, Append(acc, t[i]))

RECURSIVE ParseValue(_, _)
RECURSIVE ParseItems(_, _, _)
RECURSIVE ParseMembers(_, _, _, _)
ParseValue(t, i) ==
    IF PieceAt(t, i) = Quote THEN ParseString(t, i + 1, <<>>)
    ELSE IF PieceAt(t, i) = "["
    THEN IF PieceAt(t, i + 1) = "]" THEN Parsed(JsArray(<<>>), i + 2)
         ELSE ParseItems(t, i + 1, <<>>)
    ELSE IF PieceAt(t, i) = "{"
    THEN IF PieceAt(t, i + 1) = "}" THEN Parsed(JsObject(<<>>, <<>>), i + 2)
         ELSE ParseMembers(t, i + 1, <<>>, <<>>)
    ELSE JsonFailure

ParseItems(t, i, acc) ==
    LET r == ParseValue(t, i)
    IN IF ~r.ok THEN JsonFailure
       ELSE IF PieceAt(t, r.next) = "," THEN ParseItems(t, r.next + 1, Append(acc, r.value))
       ELSE IF PieceAt(t, r.next) = "]" THEN Parsed(JsArray(Append(acc, r.value)), r.next + 1)
       ELSE JsonFailure

ParseMembers(t, i, keys, values) ==
    LET k == IF PieceAt(t, i) = Quote THEN ParseString(t, i + 1, <<>>) ELSE JsonFailure
    IN IF ~k.ok \/ PieceAt(t, k.next) # ":" THEN JsonFailure
       ELSE LET r == ParseValue(t, k.next + 1)
            IN IF ~r.ok THEN JsonFailure
               ELSE IF PieceAt(t, r.next) = ","
               THEN ParseMembers(t, r.next + 1, Append(keys, k.value.pieces),
                                 Append(values, r.value))
               ELSE IF PieceAt(t, r.next) = "}"
               THEN Parsed(JsObject(Append(keys, k.value.pieces), Append(values, r.value)),
                           r.next + 1)
               ELSE JsonFailure

\* JSON.parse(text): the value, or the SyntaxError thrown
JsonParse(text) ==
    LET r == ParseValue(text, 1)
    IN IF r.ok /\ r.next = Len(text) + 1 THEN Returned(r.value)
       ELSE Threw(Error(<<"Unexpected token">>))

\* value?.key
GetProp(value, key) ==
    IF value.type = "object" /\ \E k \in 1..Len(value.keys) : value.keys[k] = <<key>>
    THEN value.values[CHOOSE k \in 1..Len(value.keys) :
                          /\ value.keys[k] = <<key>>
                          /\ \A j \in (k + 1)..Len(value.keys) : value.keys[j] # <<key>>]
    ELSE Undefined

\* text.indexOf(pattern, from), positions counted from 1 and 0 for -1
IndexOf(text, pattern, from) ==
    LET hits == { i \in from..(Len(text) - Len(pattern) + 1) :
                    SubSeq(text, i, i + Len(pattern) - 1) = pattern }
    IN IF hits = {} THEN 0 ELSE CHOOSE i \in hits : \A j \in hits : i <= j

\* The for loop of extractCaptionTracksFromHTML from position i: the position
\* of the bracket that brings depth back to 0, or 0 when the text ends first.
RECURSIVE ScanLoop(_, _, _, _, _)
ScanLoop(html, i, depth, inString, escape) ==
    IF i > Len(html) THEN 0
    ELSE LET char == html[i]
             inString2 == IF ~escape /\ char = Quote THEN ~inString ELSE inString
             escape2 == char = Backslash /\ ~escape
         IN IF ~inString2 /\ char = "["
            THEN ScanLoop(html, i + 1, depth + 1, inString2, escape2)
            ELSE IF ~inString2 /\ char = "]"
            THEN IF depth - 1 = 0 THEN i
                 ELSE ScanLoop(html, i + 1, depth - 1, inString2, escape2)
            ELSE ScanLoop(html, i + 1, depth, inString2, escape2)

\* const key = '"captionTracks"'
HtmlKey == <<Quote, "captionTracks", Quote>>

NoTracks == JsArray(<<>>)

\* extractCaptionTracksFromHTML(html): the text sliced, null when none is,
\* and the value returned.
extractCaptionTracksFromHTML(html) ==
    LET keyIdx == IndexOf(html, HtmlKey, 1)
        arrStart == IF keyIdx = 0 THEN 0 ELSE IndexOf(html, <<"[">>, keyIdx + Len(HtmlKey))
        arrEnd == IF arrStart = 0 THEN 0 ELSE ScanLoop(html, arrStart, 0, FALSE, FALSE)
    IN IF arrEnd = 0 THEN [slice |-> Null, tracks |-> NoTracks]
       ELSE LET slice == SubSeq(html, arrStart, arrEnd)
                parsed == JsonParse(slice)
            IN [slice |-> JsString(slice),
                tracks |-> IF parsed.threw THEN NoTracks ELSE parsed.value]

\* The separators of extractCaptionTracks: '"captions":' and ',"videoDetails'
CaptionsSeparator == <<Quote, "captions", Quote, ":">>
VideoDetailsSeparator == <<",", Quote, "videoDetails">>

\* text.split(separator)[0], and text.split(separator)[1] when there is one
BeforeSeparator(text, separator) ==
    LET at == IndexOf(text, separator, 1)
    IN IF at = 0 THEN text ELSE SubSeq(text, 1, at - 1)
AfterSeparator(text, separator) ==
    LET at == IndexOf(text, separator, 1)
    IN BeforeSeparator(SubSeq(text, at + Len(separator), Len(text)), separator)

\* extractCaptionTracks(source) of lib/transcript.ts
extractCaptionTracks(source) ==
    IF IndexOf(source, CaptionsSeparator, 1) = 0 THEN NoTracks
    ELSE LET rawJson == SelectSeq(
                            BeforeSeparator(AfterSeparator(source, CaptionsSeparator),
                                            VideoDetailsSeparator),
                            LAMBDA c : c # "\n")
             captions == JsonParse(rawJson)
             tracks == IF captions.threw THEN Undefined
                       ELSE GetProp(GetProp(captions.value, "playerCaptionsTracklistRenderer"),
                                    "captionTracks")
         IN IF tracks.type = "array" /\ Len(tracks.items) > 0 THEN tracks ELSE NoTracks

\* Bound: caption tracks of the array a script payload holds.
MaxPayloadTracks == 2

\* Values of baseUrl: plain, with brackets, with a quote, with backslashes.
UrlTexts ==
    { <<"u">>, <<"]">>, <<"[", "u">>, <<Quote, "]">>, <<"u", Backslash>>,
      <<Backslash, Quote, "[">> }

\* A caption track, with or without a nested array.
PayloadTracks ==
    { JsObject(<< <<"baseUrl">> >>, << JsString(u) >>) : u \in UrlTexts }
    \cup { JsObject(<< <<"baseUrl">>, <<"tags">> >>,
                    << JsString(u), JsArray(<< JsString(<<"]">>) >>) >>) : u \in UrlTexts }

RECURSIVE PayloadTrackListsOfLen(_)
PayloadTrackListsOfLen(n) ==
    IF n = 0 THEN { <<>> }
    ELSE { Append(l, t) : l \in PayloadTrackListsOfLen(n - 1), t \in PayloadTracks }

PayloadArrays ==
    { JsArray(l) : l \in UNION { PayloadTrackListsOfLen(n) : n \in 1..MaxPayloadTracks } }

\* The player response of a page around its captionTracks array, with its
\* keys in one of the orders, or the array under its key alone.
CaptionsObject(array) ==
    JsObject(<< <<"playerCaptionsTracklistRenderer">> >>,
             << JsObject(<< <<"captionTracks">> >>, << array >>) >>)
EmptyObject == JsObject(<<>>, <<>>)
PlayerResponses(array) ==
    { JsObject(<< <<"captions">>, <<"videoDetails">> >>,
               << CaptionsObject(array), EmptyObject >>),
      JsObject(<< <<"captions">>, <<"microformat">>, <<"videoDetails">> >>,
               << CaptionsObject(array), EmptyObject, EmptyObject >>),
      JsObject(<< <<"videoDetails">>, <<"captions">> >>,
               << EmptyObject, CaptionsObject(array) >>),
      JsObject(<< <<"captionTracks">> >>, << array >>) }
ScriptPayloads(array) ==
    { <<"var ytInitialPlayerResponse = ">> \o Render(r) \o <<";">> : r \in PlayerResponses(array) }

ExtractInit ==
    /\ exArray \in PayloadArrays
    /\ exPayload \in ScriptPayloads(exArray)
    /\ exSlice = Undefined
    /\ exFromHtml = Undefined
    /\ exFromSource = Undefined
    /\ ExtractOthersIdle

\* const tracks = extractCaptionTracksFromHTML(html)
ExtractFromHTML ==
    /\ exPayload # <<>>
    /\ exFromHtml = Undefined
    /\ LET r == extractCaptionTracksFromHTML(exPayload)
       IN exSlice' = r.slice /\ exFromHtml' = r.tracks
    /\ UNCHANGED <<exArray, exPayload, exFromSource, extractOthers>>

\* const tracks = extractCaptionTracks(text) of readCaptionTracksFromDOM
ExtractFromSource ==
    /\ exPayload # <<>>
    /\ exFromSource = Undefined
    /\ exFromSource' = extractCaptionTracks(exPayload)
    /\ UNCHANGED <<exArray, exPayload, exSlice, exFromHtml, extractOthers>>

ExtractNext == ExtractFromHTML \/ ExtractFromSource

SpecExtract == ExtractInit /\ [][ExtractNext]_vars

\* The bracket-counting extraction gives the array of the payload.
HtmlExtractsTheArray ==
    exFromHtml # Undefined =>
        (exSlice = JsString(Render(exArray)) /\ exFromHtml = exArray)

\* C34: for a payload holding a well-formed captionTracks array, the text
\* extracted is exactly that array: both extractions return its tracks.
C34_ExtractsTheArray ==
    /\ HtmlExtractsTheArray
    /\ exFromSource # Undefined => exFromSource = exArray

----------------------------------------------------------------------------
(* The blocks of the segmenter as a partition of the chunk list.            *)

\* The chunks of the blocks, in block order.
ChunksOfBlocks(blocks) == Concat([k \in 1..Len(blocks) |-> blocks[k].segments])

\* C35: for a non-empty chunk list no block of groupIntoBlocks is empty and
\* the chunks of the blocks, in block order, are the chunk list: each chunk
\* is in exactly one block.
C35_BlocksPartitionChunks ==
    (gPc = "done" /\ gSegs # <<>>) =>
        /\ Len(gBlocks) > 0
        /\ \A k \in 1..Len(gBlocks) : gBlocks[k].segments # <<>>
        /\ ChunksOfBlocks(gBlocks) = gSegs

\* C35 witness: the semantic path cut the list at two accepted boundaries
\* into three blocks, one of them of several chunks.
C35_Witness ==
    /\ gPc = "done"
    /\ gMethod = "semantic"
    /\ Len(gChosen) = 2
    /\ Len(gBlocks) = 3
    /\ \E k \in 1..Len(gBlocks) : Len(gBlocks[k].segments) > 1

----------------------------------------------------------------------------
(* Mounting and unmounting of the app: cleanup, mountApp,                   *)
(* waitForPlayerThenDOM, waitForDOMNodes and the yt-navigate-finish         *)
(* listener of content/index.tsx.                                           *)

\* Bound: yt-navigate-finish events of one page session.
MaxNavigations == 2

\* the guard of mountApp never finding a host
HostExistsNever(hostElements) == FALSE

\* document.getElementById("yt-transcript-app-host")
HostExists(hostElements) == hostElements # {}

\* observer.disconnect(), for an observer variable that may be null
Disconnect(list, o) ==
    IF o = 0 THEN list ELSE [list EXCEPT ![o].connected = FALSE, ![o].pending = FALSE]

\* mountApp: nothing when a host exists, else the containers, the host and
\* the root rendering the Panel. Gives the variables and the document after.
mountApp(root, host, hostElements, rootsNow) ==
    IF HostExists(hostElements)
    THEN [reactRoot |-> root, appHost |-> host, hosts |-> hostElements, roots |-> rootsNow]
    ELSE LET n == navigations + Len(observers) + Cardinality(hostElements) + 1
         IN [reactRoot |-> n, appHost |-> n, hosts |-> hostElements \cup {n},
             roots |-> rootsNow \cup {n}]

MountInit ==
    /\ reactRoot = 0
    /\ appHost = 0
    /\ domObserver = 0
    /\ playerObserver = 0
    /\ hosts = {}
    /\ roots = {}
    /\ observers = <<>>
    /\ timers = 1
    /\ hasPlayer \in BOOLEAN
    /\ hasNodes \in BOOLEAN
    /\ navigations = 0
    /\ MountOthersIdle

\* domObserver = waitForDOMNodes(mountApp): check() at once; when the nodes
\* are there mountApp and an observer that observes nothing, else an
\* observer of document.body. list is the observers before the call.
waitForDOMAndMount(list) ==
    IF hasNodes
    THEN LET m == mountApp(reactRoot, appHost, hosts, roots)
         IN /\ reactRoot' = m.reactRoot
            /\ appHost' = m.appHost
            /\ hosts' = m.hosts
            /\ roots' = m.roots
            /\ observers' = Append(list, [kind |-> "dom", connected |-> FALSE,
                                          pending |-> FALSE])
            /\ domObserver' = Len(list) + 1
    ELSE /\ observers' = Append(list, [kind |-> "dom", connected |-> TRUE,
                                       pending |-> FALSE])
         /\ domObserver' = Len(list) + 1
         /\ UNCHANGED <<reactRoot, appHost, hosts, roots>>

\* A timer of the yt-navigate-finish listener fires, or the script runs for
\* the first time: waitForPlayerThenDOM.
WaitForPlayerThenDOM ==
    /\ timers > 0
    /\ timers' = timers - 1
    /\ IF hasPlayer
       THEN waitForDOMAndMount(observers) /\ UNCHANGED playerObserver
       ELSE /\ observers' = Append(observers, [kind |-> "player", connected |-> TRUE,
                                               pending |-> FALSE])
            /\ playerObserver' = Len(observers) + 1
            /\ UNCHANGED <<reactRoot, appHost, domObserver, hosts, roots>>
    /\ UNCHANGED <<hasPlayer, hasNodes, navigations, mountOthers>>

\* A mutation of document.body, by the page or by the extension: #player and
\* the insertion nodes may come or go; every connected observer is notified.
BodyMutation ==
    /\ \E p, n \in BOOLEAN :
          /\ hasPlayer' = p
          /\ hasNodes' = n
    /\ observers' = [o \in 1..Len(observers) |->
                        [observers[o] EXCEPT !.pending = observers[o].connected]]
    /\ UNCHANGED <<reactRoot, appHost, domObserver, playerObserver, hosts, roots, timers,
                   navigations, mountOthers>>

\* The callback of the observer o of waitForPlayerThenDOM: with #player there
\* playerObserver!.disconnect() (a TypeError when it is null), then
\* waitForDOMAndMount.
PlayerObserverCallback(o) ==
    /\ observers[o].kind = "player"
    /\ observers[o].pending
    /\ IF hasPlayer /\ playerObserver # 0
       THEN /\ waitForDOMAndMount(
                   Disconnect([observers EXCEPT ![o].pending = FALSE], playerObserver))
            /\ playerObserver' = 0
       ELSE /\ observers' = [observers EXCEPT ![o].pending = FALSE]
            /\ UNCHANGED <<reactRoot, appHost, domObserver, playerObserver, hosts, roots>>
    /\ UNCHANGED <<timers, hasPlayer, hasNodes, navigations, mountOthers>>

\* The callback of the observer o of waitForDOMNodes: if (check())
\* observer.disconnect(), check() calling mountApp when the nodes are there.
DomObserverCallback(o) ==
    /\ observers[o].kind = "dom"
    /\ observers[o].pending
    /\ IF hasNodes
       THEN LET m == mountApp(reactRoot, appHost, hosts, roots)
            IN /\ reactRoot' = m.reactRoot
               /\ appHost' = m.appHost
               /\ hosts' = m.hosts
               /\ roots' = m.roots
               /\ observers' = Disconnect(observers, o)
       ELSE /\ observers' = [observers EXCEPT ![o].pending = FALSE]
            /\ UNCHANGED <<reactRoot, appHost, hosts, roots>>
    /\ UNCHANGED <<domObserver, playerObserver, timers, hasPlayer, hasNodes, navigations,
                   mountOthers>>

\* yt-navigate-finish: cleanup(), then setTimeout(waitForPlayerThenDOM, 500)
YtNavigateFinish ==
    /\ navigations < MaxNavigations
    /\ navigations' = navigations + 1
    /\ roots' = roots \ {reactRoot}
    /\ reactRoot' = 0
    /\ hosts' = hosts \ {appHost}
    /\ appHost' = 0
    /\ observers' = Disconnect(Disconnect(observers, domObserver), playerObserver)
    /\ domObserver' = 0
    /\ playerObserver' = 0
    /\ timers' = timers + 1
    /\ UNCHANGED <<hasPlayer, hasNodes, mountOthers>>

MountNext ==
    \/ WaitForPlayerThenDOM
    \/ BodyMutation
    \/ \E o \in 1..Len(observers) : PlayerObserverCallback(o)
    \/ \E o \in 1..Len(observers) : DomObserverCallback(o)
    \/ YtNavigateFinish

SpecMount == MountInit /\ [][MountNext]_vars

\* C38: at most one host is in the document and at most one root renders a
\* Panel, both the ones the script holds; a step that runs cleanup leaves
\* none, and a Panel is mounted only by a step in which mountApp builds it.
C38_AtMostOnePanel ==
    [][ /\ Cardinality(roots') <= 1
        /\ Cardinality(hosts') <= 1
        /\ roots' = (IF reactRoot' = 0 THEN {} ELSE {reactRoot'})
        /\ hosts' = (IF appHost' = 0 THEN {} ELSE {appHost'})
        /\ navigations' # navigations => (roots' = {} /\ hosts' = {})
        /\ (roots = {} /\ roots' # {}) => (hasNodes /\ hosts = {} /\ reactRoot' = appHost')
      ]_vars

\* C38 witness: after two navigations whose timers were both pending, with
\* two observers of waitForDOMNodes connected at once, one Panel is mounted.
C38_Witness ==
    /\ navigations = 2
    /\ timers = 0
    /\ Cardinality(roots) = 1
    /\ Cardinality({ o \in 1..Len(observers) : observers[o].kind = "dom" }) >= 2
    /\ \A o \in 1..Len(observers) : ~observers[o].connected

----------------------------------------------------------------------------
(* The offscreen document of the background worker: ensureOffscreenDocument *)
(* and handleEmbedText of background/index.ts, and the listener of          *)
(* offscreen/index.ts that answers OFFSCREEN_EMBED_TEXT.                     *)

\* Bound: EMBED_TEXT requests the background worker receives.
MaxEmbedRequests == 3

EmbedTexts == { "a", "b" }

\* the message of the rejection of createDocument while a document exists
SingleDocumentError == "Only a single offscreen document may be created."

PipelineError == "pipeline failed"

OffscreenEmbedding(text) == [embedding |-> text]

ErrorResponse(message) == [error |-> message]

OffscreenInit ==
    /\ embedRequests = <<>>
    /\ offscreenDocument = "none"
    /\ createCalls = 0
    /\ OffscreenOthersIdle

\* EMBED_TEXT arrives: handleEmbedText calls ensureOffscreenDocument, which
\* awaits chrome.runtime.getContexts.
EmbedTextRequest(text) ==
    /\ Len(embedRequests) < MaxEmbedRequests
    /\ embedRequests' = Append(embedRequests,
                               [text |-> text, pc |-> "getContexts", response |-> Undefined])
    /\ UNCHANGED <<offscreenDocument, createCalls, offscreenOthers>>

\* getContexts resolves for request r with the contexts of that moment: a
\* document that is open is listed, one being created may or may not be.
\* contexts.length === 0 calls createDocument, which the browser rejects
\* when a document exists or is being created; otherwise the message
\* OFFSCREEN_EMBED_TEXT is sent.
GetContextsResolve(r) ==
    /\ embedRequests[r].pc = "getContexts"
    /\ \E listed \in BOOLEAN :
          /\ offscreenDocument = "open" => listed
          /\ offscreenDocument = "none" => ~listed
          /\ IF listed
             THEN /\ embedRequests' = [embedRequests EXCEPT ![r].pc = "sendMessage"]
                  /\ UNCHANGED <<offscreenDocument, createCalls>>
             ELSE /\ createCalls' = createCalls + 1
                  /\ IF offscreenDocument = "none"
                     THEN /\ offscreenDocument' = "creating"
                          /\ embedRequests' = [embedRequests EXCEPT ![r].pc = "createDocument"]
                     ELSE /\ offscreenDocument' = offscreenDocument
                          /\ embedRequests' = [embedRequests EXCEPT ![r].pc = "createRejected"]
    /\ UNCHANGED offscreenOthers

\* createDocument resolves: the document is open, ensureOffscreenDocument
\* returns and handleEmbedText sends OFFSCREEN_EMBED_TEXT.
CreateDocumentResolve(r) ==
    /\ embedRequests[r].pc = "createDocument"
    /\ offscreenDocument' = "open"
    /\ embedRequests' = [embedRequests EXCEPT ![r].pc = "sendMessage"]
    /\ UNCHANGED <<createCalls, offscreenOthers>>

\* createDocument rejects: the catch of handleEmbedText answers the request
\* with the message of the error.
CreateDocumentReject(r) ==
    /\ embedRequests[r].pc = "createRejected"
    /\ embedRequests' = [embedRequests EXCEPT ![r].pc = "done",
                                              ![r].response = ErrorResponse(SingleDocumentError)]
    /\ UNCHANGED <<offscreenDocument, createCalls, offscreenOthers>>

\* The listener of the offscreen document answers request r: the embedding
\* of the text, or the error of getPipeline or of the inference.
OffscreenEmbedText(r) ==
    /\ embedRequests[r].pc = "sendMessage"
    /\ offscreenDocument = "open"
    /\ \E response \in { OffscreenEmbedding(embedRequests[r].text), ErrorResponse(PipelineError) } :
          embedRequests' = [embedRequests EXCEPT ![r].pc = "done", ![r].response = response]
    /\ UNCHANGED <<offscreenDocument, createCalls, offscreenOthers>>

OffscreenNext ==
    \/ \E text \in EmbedTexts : EmbedTextRequest(text)
    \/ \E r \in 1..Len(embedRequests) : GetContextsResolve(r)
    \/ \E r \in 1..Len(embedRequests) : CreateDocumentResolve(r)
    \/ \E r \in 1..Len(embedRequests) : CreateDocumentReject(r)
    \/ \E r \in 1..Len(embedRequests) : OffscreenEmbedText(r)

SpecOffscreen == OffscreenInit /\ [][OffscreenNext]_vars

\* C39: createDocument is called only while no offscreen document exists or
\* is being created, and no EMBED_TEXT request is answered with the error of
\* a rejected createDocument: every request reaches sendMessage.
C39_DocumentCreatedOnce ==
    /\ createCalls <= 1
    /\ \A r \in 1..Len(embedRequests) :
          /\ embedRequests[r].pc # "createRejected"
          /\ embedRequests[r].response # ErrorResponse(SingleDocumentError)

====
